---- MODULE Spec2Model ----
(***************************************************************************)
(* Asynchronous job monitors and the S3 artifact locator of the            *)
(* AIStoryTeller lambdas.                                                  *)
(*                                                                         *)
(* One behaviour is one call of one entry point: a job monitor             *)
(* (monitor_video_generation, wait_for_mediaconvert_job,                   *)
(* get_polly_output_file), the locator (verify_file_exists), or a          *)
(* handler: the merger's lambda_handler, which calls the locator and the   *)
(* monitors in sequence, the video-generation handlers, which submit a     *)
(* Bedrock job and (but for story-video-generator.py) monitor it, and the  *)
(* story handler.  The external services (Bedrock, Polly, MediaConvert, S3)*)
(* are the environment: a job changes its status and an object appears or  *)
(* disappears at any time, and any service call may raise.                 *)
(***************************************************************************)
EXTENDS Integers, Sequences, FiniteSets, TLC

\* ------------------------------------------------------------------ bounds
MaxLatency == 1          \* seconds a get_async_invoke call may take
MaxAttempts == 3         \* largest max_attempts passed to a direct call
MaxHandlerAttempts == 2  \* cap on the max_attempts lambda_handler passes
NumInvocations == 2      \* invocations of the merger running at once
MaxScenes == 7           \* parts the story model's text may split into

\* ------------------------------------------------------- program constants
SLEEP_SECONDS == 15
MAX_MONITORING_TIME == 900

\* The story ids concurrent invocations are given.
StoryIds == {"story_1", "story_2"}

\* --------------------------------------------------------------- variables
VARIABLES
    entry,          \* the entry point this run calls
    file,           \* the source file whose copy of the function runs
    fn,             \* the function now executing
    pc,             \* its position: "for" | "query" | "check" | "sleep" |
                    \* "sleep_complete" | "next" | "done"
    clock,          \* time.time(), read only by monitor_video_generation
    start_time,     \* local start_time of monitor_video_generation
    status,         \* local status / task_state of the last successful query
    attempt,        \* loop variable of `for attempt in range(max_attempts)`
    max_attempts,   \* parameter max_attempts
    pathIdx,        \* index in paths_to_check of the path being checked
    paths,          \* local paths_to_check of verify_file_exists
    result,         \* what the function returned or raised
    job,            \* external: status of the job being polled
    store,          \* external: the keys that exist in the bucket
    hist,           \* history of the running call (queries, sleeps, ...)
    hpc,            \* position of the handler ("none" in a direct call,
                    \* "done" once it returned, "raised" if an exception
                    \* left it)
    hv,             \* locals of the handler
    response,       \* what the handler returned
    hh,             \* history of the handler's invocation
    invocations     \* the merger lambda_handler invoked several times at
                    \* once: each invocation's locals, and the tasks, jobs
                    \* and objects of the account they all use

handlerVars == <<hpc, hv, response, hh>>

\* The variables of one invocation followed on its own.
singleVars == <<entry, file, fn, pc, clock, start_time, status, attempt,
                max_attempts, pathIdx, paths, result, job, store, hist,
                hpc, hv, response, hh>>

vars == <<singleVars, invocations>>

\* ----------------------------------------------------------------- values
BedrockFiles == {"VideoGeneratorFunction", "vg", "story-video-final"}
MergerFiles  == {"AudioVideoMergerFunction", "av"}

BedrockStatuses == {"InProgress", "Completed", "Failed", "Unrecognized"}
MCStatuses      == {"SUBMITTED", "PROGRESSING", "COMPLETE", "ERROR",
                    "CANCELED", "Unrecognized"}
PollyStatuses   == {"scheduled", "inProgress", "completed", "failed",
                    "Unrecognized"}

StatusesOf(f) ==
    CASE f = "monitor_video_generation"  -> BedrockStatuses
      [] f = "wait_for_mediaconvert_job" -> MCStatuses
      [] f = "get_polly_output_file"     -> PollyStatuses
      [] OTHER                           -> {"none"}

\* The status a freshly submitted job reports.
InitialStatus(f) ==
    CASE f = "monitor_video_generation"  -> "InProgress"
      [] f = "wait_for_mediaconvert_job" -> "SUBMITTED"
      [] f = "get_polly_output_file"     -> "scheduled"
      [] OTHER                           -> "none"

\* An S3 key: `base` followed by `mp4` copies of the suffix ".mp4",
\* with `pre` copies of the prefix "<story_id>/".
Key(p, b, n) == [pre |-> p, base |-> b, mp4 |-> n]
NoKey == Key(0, "None", 0)

\* Exceptions a service call can raise.
ExcTypes == {"ClientError", "Exception"}
ExcText(t) == IF t = "ClientError" THEN "ClientError: request failed"
                                   ELSE "Exception: connection reset"

NoResult == [kind |-> "none", ok |-> FALSE, text |-> "", etype |-> "",
             key |-> NoKey, loc |-> "None"]
Return(okv, txt, k, l) == [kind |-> "return", ok |-> okv, text |-> txt,
                           etype |-> "", key |-> k, loc |-> l]
Raise(t, txt) == [kind |-> "raise", ok |-> FALSE, text |-> txt, etype |-> t,
                  key |-> NoKey, loc |-> "None"]

\* --------------------------------------------------------------- history
\* Events of the running call, kept as counters and flags:
\*   nQueries, nSleeps    status queries issued / sleeps performed
\*   nExc                 status queries that raised
\*   nInProgress          status queries answered with an in-progress value
\*   lastExc              text of the exception the latest failed query raised
\*   lastMsg              error message of the failed job the latest query saw
\*   last                 "none" | "query" | "sleep": the latest event
\*   lastQ                outcome of the latest query: a status or "EXC"
\*   lastFinal            the latest query was on the final allowed attempt
\*   lastLat              seconds the latest query took
\*   lastQueryAt          elapsed seconds when the latest query was issued
\*   other, afterOther    first status seen that is not an in-progress value,
\*                        and the events (queries and sleeps) that followed it
\*   term, afterTerm      first terminal status seen, and the queries issued
\*                        after it
\*   busy                 two queries were issued with no sleep in between
\*   returns              times the function has returned or raised
\* and for verify_file_exists, whose queries are existence checks:
\*   chk                  checks made of each position of paths_to_check
\*   lastKey              the key of the latest check
\*   noDelay              a key was checked twice in a row with no sleep
\*   outOfOrder           a position was checked before an earlier one had
\*                        failed max_attempts times
NoHist == [nQueries |-> 0, nSleeps |-> 0, nExc |-> 0, nInProgress |-> 0,
           lastExc |-> "", lastMsg |-> "", last |-> "none",
           lastQ |-> "none", lastFinal |-> FALSE, lastLat |-> 0,
           lastQueryAt |-> 0, other |-> "none", afterOther |-> 0,
           term |-> "none", afterTerm |-> 0, busy |-> FALSE, returns |-> 0,
           chk |-> <<0, 0, 0>>, lastKey |-> NoKey, noDelay |-> FALSE,
           outOfOrder |-> FALSE]

\* The in-progress values of each service's status.
InProgressValue(f, s) ==
    CASE f = "monitor_video_generation"  -> s = "InProgress"
      [] f = "wait_for_mediaconvert_job" -> s \in {"SUBMITTED", "PROGRESSING"}
      [] f = "get_polly_output_file"     -> s \in {"scheduled", "inProgress"}
      [] OTHER                           -> FALSE

\* The terminal statuses of each service.
TerminalValue(f, s) ==
    CASE f = "monitor_video_generation"  -> s # "InProgress"
      [] f = "wait_for_mediaconvert_job" -> s \in {"COMPLETE", "ERROR", "CANCELED"}
      [] f = "get_polly_output_file"     -> s \in {"completed", "failed"}
      [] OTHER                           -> FALSE

\* hist after a status query of f answered q (a status, or "EXC" when the
\* call raised), issued at elapsed time `at`, taking `lat` seconds, on the
\* final allowed attempt or not.
HQuery(h, f, q, at, lat, final) ==
    [h EXCEPT
       !.nQueries    = @ + 1,
       !.nExc        = IF q = "EXC" THEN @ + 1 ELSE @,
       !.nInProgress = IF q # "EXC" /\ InProgressValue(f, q) THEN @ + 1 ELSE @,
       !.busy        = @ \/ h.last = "query",
       !.last        = "query",
       !.lastQ       = q,
       !.lastFinal   = final,
       !.lastLat     = lat,
       !.lastQueryAt = at,
       !.afterOther  = IF h.other # "none" THEN @ + 1 ELSE @,
       !.other       = IF h.other = "none" /\ q # "EXC" /\ ~InProgressValue(f, q)
                       THEN q ELSE @,
       !.afterTerm   = IF h.term # "none" THEN @ + 1 ELSE @,
       !.term        = IF h.term = "none" /\ q # "EXC" /\ TerminalValue(f, q)
                       THEN q ELSE @]

\* hist after a status query of f raised an exception of type et.
HExc(h, f, et, at, lat, final) ==
    [HQuery(h, f, "EXC", at, lat, final) EXCEPT !.lastExc = ExcText(et)]

\* hist after a status query answered with a failed job whose error
\* message reads msg.
HMsg(h, msg) == [h EXCEPT !.lastMsg = msg]

\* The attempt numbered a (from 0) is the last one a ceiling of m allows.
LastAllowed(a, m) == a + 1 >= m

\* hist after an existence check of key k, position i of paths_to_check,
\* that found the object or not, in a call allowing m attempts per position.
HCheck(h, i, k, found, final, m) ==
    [h EXCEPT
       !.nQueries   = @ + 1,
       !.nExc       = IF found THEN @ ELSE @ + 1,
       !.busy       = @ \/ h.last = "query",
       !.last       = "query",
       !.lastQ      = IF found THEN "found" ELSE "EXC",
       !.lastFinal  = final,
       !.chk        = [@ EXCEPT ![i] = @ + 1],
       !.lastKey    = k,
       !.noDelay    = @ \/ (h.last = "query" /\ h.lastKey = k),
       !.outOfOrder = @ \/ (\E j \in 1..(i - 1) : h.chk[j] < m)]

\* hist after time.sleep.
HSleep(h) ==
    [h EXCEPT !.nSleeps    = @ + 1,
              !.last       = "sleep",
              !.afterOther = IF h.other # "none" THEN @ + 1 ELSE @]

\* hist after the function returned or raised.
HReturn(h) == [h EXCEPT !.returns = @ + 1]

\* ------------------------------------------------------------ environment
\* The state of the job after a status query, and the bucket after an
\* existence check of key k: the calls read and change nothing.
get_async_invoke(j) == j
get_job(j) == j
get_speech_synthesis_task(j) == j

\* Mutant: the existence check creates the object it asks for.
head_object_Creates(st, k) == st \cup {k}

head_object(st, k) == st

\* The job changes its status; nothing orders the statuses.
JobStep ==
    /\ fn \in {"monitor_video_generation", "wait_for_mediaconvert_job",
               "get_polly_output_file"}
    /\ pc # "done"
    /\ \E s \in StatusesOf(fn) : s # job /\ job' = s
    /\ UNCHANGED <<handlerVars, invocations, entry, file, fn, pc, clock, start_time, status, attempt,
                   max_attempts, pathIdx, paths, result, store, hist>>

\* ------------------------------------------- monitor_video_generation
\* Mutant: only "Completed" leaves the loop.
BedrockTerminal_CompletedOnly(s) == s = "Completed"

\* `if status != "InProgress": break`
BedrockTerminal(s) == s # "InProgress"

\* Mutant: the ceiling is compared two sleeps late.
TimedOut_Late(now, start) ==
    now - start > MAX_MONITORING_TIME + 2 * SLEEP_SECONDS

\* Mutant: `>=` for `>`.
TimedOut_AtCeiling(now, start) == now - start >= MAX_MONITORING_TIME

\* `if time.time() - start_time > MAX_MONITORING_TIME`
TimedOut(now, start) == now - start > MAX_MONITORING_TIME

\* The location returned with a status that ended the loop.
OutputLocation(f, s) ==
    IF s = "Completed"
    THEN IF f = "VideoGeneratorFunction"
         THEN "s3://OUTPUT_BUCKET/story_id/job_id/output.mp4"
         ELSE "s3://OUTPUT_BUCKET/job_id/output.mp4"
    ELSE "None"

\* Mutant: every file returns the job folder with "Timeout" and "Error".
AbortLocation_JobFolder(f) == "s3://OUTPUT_BUCKET/job_id"

\* The location returned with "Timeout" and "Error".
AbortLocation(f) ==
    IF f = "VideoGeneratorFunction" THEN "None" ELSE "s3://OUTPUT_BUCKET/job_id"

\* Mutant: the time-out branch returns the status it has just read.
TimeoutResult_ReturnsStatus(f) ==
    [kind |-> "return", ok |-> TRUE, text |-> "InProgress", etype |-> "",
     key |-> [pre |-> 0, base |-> "None", mp4 |-> 0], loc |-> "None"]

\* `return "Timeout", None` (`return "Timeout", s3_location` in vg.py and
\* story-video-final.py)
TimeoutResult(f) == Return(TRUE, "Timeout", NoKey, AbortLocation(f))

\* `return "Error", None` (`return "Error", s3_location`)
ErrorResult(f) == Return(TRUE, "Error", NoKey, AbortLocation(f))

\* One pass of `while True` up to the sleep: get_async_invoke, then the
\* break, the time check, or the exception handler.
monitor_video_generation_query ==
    /\ fn = "monitor_video_generation" /\ pc = "query"
    /\ \E lat \in 0..MaxLatency, raised \in BOOLEAN, et \in ExcTypes :
         LET now == clock + lat
             at  == clock - start_time IN
         /\ clock' = now
         /\ IF raised
            THEN /\ hist' = HReturn(HExc(hist, fn, et, at, lat, FALSE))
                 /\ result' = ErrorResult(file)
                 /\ pc' = "done"
                 /\ UNCHANGED status
            ELSE /\ status' = job
                 /\ IF BedrockTerminal(job)
                    THEN /\ hist' = HReturn(HQuery(hist, fn, job, at, lat, FALSE))
                         /\ result' = Return(TRUE, job, NoKey,
                                             OutputLocation(file, job))
                         /\ pc' = "done"
                    ELSE IF TimedOut(now, start_time)
                    THEN /\ hist' = HReturn(HQuery(hist, fn, job, at, lat, FALSE))
                         /\ result' = TimeoutResult(file)
                         /\ pc' = "done"
                    ELSE /\ hist' = HQuery(hist, fn, job, at, lat, FALSE)
                         /\ pc' = "sleep"
                         /\ UNCHANGED result
    /\ UNCHANGED <<handlerVars, invocations, entry, file, fn, start_time, attempt, max_attempts,
                   pathIdx, paths, store>>
    /\ job' = get_async_invoke(job)

\* `time.sleep(SLEEP_SECONDS)`
monitor_video_generation_sleep ==
    /\ fn = "monitor_video_generation" /\ pc = "sleep"
    /\ clock' = clock + SLEEP_SECONDS
    /\ hist' = HSleep(hist)
    /\ pc' = "query"
    /\ UNCHANGED <<handlerVars, invocations, entry, file, fn, start_time, status, attempt, max_attempts,
                   pathIdx, paths, result, job, store>>

\* -------------------------------------------------- attempt-count loops
\* Mutant: `range(max_attempts - 1)`.
InRange_OneShort(a, m) == a + 1 < m

\* `for attempt in range(max_attempts)`: the body runs while this holds.
InRange(a, m) == a < m

\* Mutant: off by one, `attempt == max_attempts`.
IsFinalAttempt_OffByOne(a, m) == a = m

\* `if attempt == max_attempts - 1`
IsFinalAttempt(a, m) == a = m - 1

\* ------------------------------------------- wait_for_mediaconvert_job
\* `if status == 'COMPLETE'`
MCComplete(s) == s = "COMPLETE"

\* Mutant: a job counts as failed only while no query has raised.
MCFailed_UnlessRaisedBefore(s) == s \in {"ERROR", "CANCELED"} /\ hist.nExc = 0

\* `elif status in ['ERROR', 'CANCELED']`
MCFailed(s) == s \in {"ERROR", "CANCELED"}

\* Mutant: both copies sleep after COMPLETE.
SleepsAfterComplete_Always(f) == TRUE

\* `time.sleep(15)  # Added delay after completion`, absent from av.py
SleepsAfterComplete(f) == f = "AudioVideoMergerFunction"

\* Loop header: enter the body, or fall out of the loop into
\* `return False, "Timeout waiting for MediaConvert job"`.
wait_for_mediaconvert_job_for ==
    /\ fn = "wait_for_mediaconvert_job" /\ pc = "for"
    /\ IF InRange(attempt, max_attempts)
       THEN /\ pc' = "query"
            /\ UNCHANGED <<result, hist>>
       ELSE /\ pc' = "done"
            /\ result' = Return(FALSE, "Timeout waiting for MediaConvert job",
                                NoKey, "None")
            /\ hist' = HReturn(hist)
    /\ UNCHANGED <<handlerVars, invocations, entry, file, fn, clock, start_time, status, attempt,
                   max_attempts, pathIdx, paths, job, store>>

\* The try block up to a return or a sleep: get_job, then the branches on
\* status, or the exception handler.
wait_for_mediaconvert_job_query ==
    /\ fn = "wait_for_mediaconvert_job" /\ pc = "query"
    /\ \E raised \in BOOLEAN, et \in ExcTypes,
          em \in {"ErrorMessage of the job", "Unknown error"} :
         LET final == LastAllowed(attempt, max_attempts) IN
         IF raised
         THEN /\ UNCHANGED status
              /\ IF IsFinalAttempt(attempt, max_attempts)
                 THEN /\ hist' = HReturn(HExc(hist, fn, et, 0, 0, final))
                      /\ result' = Return(FALSE, ExcText(et), NoKey, "None")
                      /\ pc' = "done"
                 ELSE /\ hist' = HExc(hist, fn, et, 0, 0, final)
                      /\ pc' = "sleep"
                      /\ UNCHANGED result
         ELSE /\ status' = job
              /\ IF MCComplete(job)
                 THEN IF SleepsAfterComplete(file)
                      THEN /\ hist' = HQuery(hist, fn, job, 0, 0, final)
                           /\ pc' = "sleep_complete"
                           /\ UNCHANGED result
                      ELSE /\ hist' = HReturn(HQuery(hist, fn, job, 0, 0, final))
                           /\ result' = Return(TRUE, "None", NoKey, "None")
                           /\ pc' = "done"
                 ELSE IF MCFailed(job)
                 THEN /\ hist' = HReturn(HMsg(HQuery(hist, fn, job, 0, 0, final), em))
                      /\ result' = Return(FALSE, em, NoKey, "None")
                      /\ pc' = "done"
                 ELSE /\ hist' = HQuery(hist, fn, job, 0, 0, final)
                      /\ pc' = "sleep"
                      /\ UNCHANGED result
    /\ UNCHANGED <<handlerVars, invocations, entry, file, fn, clock, start_time, attempt, max_attempts,
                   pathIdx, paths, store>>
    /\ job' = get_job(job)

\* `time.sleep(delay)`, in the try block or in the handler; the next
\* iteration follows.
wait_for_mediaconvert_job_sleep ==
    /\ fn = "wait_for_mediaconvert_job" /\ pc = "sleep"
    /\ hist' = HSleep(hist)
    /\ attempt' = attempt + 1
    /\ pc' = "for"
    /\ UNCHANGED <<handlerVars, invocations, entry, file, fn, clock, start_time, status, max_attempts,
                   pathIdx, paths, result, job, store>>

\* `time.sleep(15)` then `return True, None`
wait_for_mediaconvert_job_sleep_complete ==
    /\ fn = "wait_for_mediaconvert_job" /\ pc = "sleep_complete"
    /\ hist' = HReturn(HSleep(hist))
    /\ result' = Return(TRUE, "None", NoKey, "None")
    /\ pc' = "done"
    /\ UNCHANGED <<handlerVars, invocations, entry, file, fn, clock, start_time, status, attempt,
                   max_attempts, pathIdx, paths, job, store>>

\* ----------------------------------------------- get_polly_output_file
\* `if task_state == 'completed'`
PollyCompleted(s) == s = "completed"

\* `elif task_state == 'failed'`
PollyFailed(s) == s = "failed"

\* The statuses after which the try block sleeps: every remaining one in
\* AudioVideoMergerFunction.py, 'scheduled' and 'inProgress' in av.py.
PollySleeps(f, s) ==
    IF f = "av" THEN s \in {"scheduled", "inProgress"} ELSE TRUE

\* The key cut out of SynthesisTask.OutputUri.
PollyOutputKey == Key(0, "story_id/audio/speech.task_id.mp3", 0)

\* Loop header: enter the body, or fall out of the loop into
\* `raise Exception("Timeout waiting for Polly file ...")`.
get_polly_output_file_for ==
    /\ fn = "get_polly_output_file" /\ pc = "for"
    /\ IF InRange(attempt, max_attempts)
       THEN /\ pc' = "query"
            /\ UNCHANGED <<result, hist>>
       ELSE /\ pc' = "done"
            /\ result' = Raise("Exception", "Timeout waiting for Polly file")
            /\ hist' = HReturn(hist)
    /\ UNCHANGED <<handlerVars, invocations, entry, file, fn, clock, start_time, status, attempt,
                   max_attempts, pathIdx, paths, job, store>>

\* The try block up to a return, a raise or a sleep.  The exception raised
\* for a 'failed' task is raised inside the try block, so the function's own
\* `except Exception` catches it like a failed query.
get_polly_output_file_query ==
    /\ fn = "get_polly_output_file" /\ pc = "query"
    /\ \E raised \in BOOLEAN, et \in ExcTypes :
         LET final == LastAllowed(attempt, max_attempts) IN
         IF raised
         THEN /\ UNCHANGED status
              /\ IF IsFinalAttempt(attempt, max_attempts)
                 THEN /\ hist' = HReturn(HExc(hist, fn, et, 0, 0, final))
                      /\ result' = Raise(et, ExcText(et))
                      /\ pc' = "done"
                 ELSE /\ hist' = HExc(hist, fn, et, 0, 0, final)
                      /\ pc' = "sleep"
                      /\ UNCHANGED result
         ELSE /\ status' = job
              /\ IF PollyCompleted(job)
                 THEN /\ hist' = HReturn(HQuery(hist, fn, job, 0, 0, final))
                      /\ result' = Return(TRUE, "None", PollyOutputKey, "None")
                      /\ pc' = "done"
                 ELSE IF PollyFailed(job)
                 THEN IF IsFinalAttempt(attempt, max_attempts)
                      THEN /\ hist' = HReturn(HQuery(hist, fn, job, 0, 0, final))
                           /\ result' = Raise("Exception", "Polly task failed")
                           /\ pc' = "done"
                      ELSE /\ hist' = HQuery(hist, fn, job, 0, 0, final)
                           /\ pc' = "sleep"
                           /\ UNCHANGED result
                 ELSE IF PollySleeps(file, job)
                 THEN /\ hist' = HQuery(hist, fn, job, 0, 0, final)
                      /\ pc' = "sleep"
                      /\ UNCHANGED result
                 ELSE /\ hist' = HQuery(hist, fn, job, 0, 0, final)
                      /\ pc' = "next"
                      /\ UNCHANGED result
    /\ UNCHANGED <<handlerVars, invocations, entry, file, fn, clock, start_time, attempt, max_attempts,
                   pathIdx, paths, store>>
    /\ job' = get_speech_synthesis_task(job)

\* `time.sleep(delay)`; the next iteration follows.
get_polly_output_file_sleep ==
    /\ fn = "get_polly_output_file" /\ pc = "sleep"
    /\ hist' = HSleep(hist)
    /\ attempt' = attempt + 1
    /\ pc' = "for"
    /\ UNCHANGED <<handlerVars, invocations, entry, file, fn, clock, start_time, status, max_attempts,
                   pathIdx, paths, result, job, store>>

\* av.py: no branch of the if/elif chain matched; the body ends and the
\* next iteration follows with no sleep.
get_polly_output_file_next ==
    /\ fn = "get_polly_output_file" /\ pc = "next"
    /\ attempt' = attempt + 1
    /\ pc' = "for"
    /\ UNCHANGED <<handlerVars, invocations, entry, file, fn, clock, start_time, status, max_attempts,
                   pathIdx, paths, result, job, store, hist>>

\* --------------------------------------------------- verify_file_exists
EndsWithMp4(k) == k.mp4 > 0
AddMp4(k)      == [k EXCEPT !.mp4 = @ + 1]
StripMp4(k)    == [k EXCEPT !.mp4 = @ - 1]

\* `paths_to_check = [key, f"{key}.mp4",
\*                    key[:-4] if key.endswith('.mp4') else f"{key}.mp4"]`
paths_to_check(k) ==
    <<k, AddMp4(k), IF EndsWithMp4(k) THEN StripMp4(k) ELSE AddMp4(k)>>

Range(sq) == {sq[i] : i \in 1..Len(sq)}

\* An object is written to or removed from the bucket by somebody else.
StoreStep ==
    /\ fn = "verify_file_exists" /\ pc # "done"
    /\ \E k \in Range(paths) :
         store' = IF k \in store THEN store \ {k} ELSE store \cup {k}
    /\ UNCHANGED <<handlerVars, invocations, entry, file, fn, pc, clock, start_time, status, attempt,
                   max_attempts, pathIdx, paths, result, job, hist>>

\* The headers of `for path in paths_to_check` and
\* `for attempt in range(max_attempts)`: enter the body, move to the next
\* path, or fall out of both loops into `return False, None`.
verify_file_exists_for ==
    /\ fn = "verify_file_exists" /\ pc = "for"
    /\ IF pathIdx > Len(paths)
       THEN /\ pc' = "done"
            /\ result' = Return(FALSE, "None", NoKey, "None")
            /\ hist' = HReturn(hist)
            /\ UNCHANGED <<pathIdx, attempt>>
       ELSE IF InRange(attempt, max_attempts)
       THEN /\ pc' = "check"
            /\ UNCHANGED <<result, hist, pathIdx, attempt>>
       ELSE /\ pathIdx' = pathIdx + 1
            /\ attempt' = 0
            /\ UNCHANGED <<pc, result, hist>>
    /\ UNCHANGED <<handlerVars, invocations, entry, file, fn, clock, start_time, status, max_attempts,
                   paths, job, store>>

\* Mutant: `return True, key`, the key the call was given.
FoundResult_PrimaryKey(ps, i) ==
    [kind |-> "return", ok |-> TRUE, text |-> "None", etype |-> "",
     key |-> ps[1], loc |-> "None"]

\* `return True, path`
FoundResult(ps, i) == Return(TRUE, "None", ps[i], "None")

\* Mutant: `except ClientError`, which lets any other exception through.
Catches_ClientErrorOnly(et) == et = "ClientError"

\* `except Exception as e`: the handler takes an exception of any type.
Catches(et) == et \in ExcTypes

\* The try block: head_object, then `return True, path`, or the handler of
\* any exception: `continue` on the last attempt, otherwise a sleep. The
\* call fails with an exception of type et when the object is missing or
\* the request itself fails.
verify_file_exists_check ==
    /\ fn = "verify_file_exists" /\ pc = "check"
    /\ \E raised \in BOOLEAN, et \in ExcTypes :
         LET path  == paths[pathIdx]
             found == path \in store /\ ~raised
             final == LastAllowed(attempt, max_attempts)
             h     == HCheck(hist, pathIdx, path, found, final, max_attempts) IN
         IF found
         THEN /\ hist' = HReturn(h)
              /\ result' = FoundResult(paths, pathIdx)
              /\ pc' = "done"
              /\ UNCHANGED <<pathIdx, attempt>>
         ELSE IF ~Catches(et)
         THEN /\ hist' = HReturn(h)
              /\ result' = Raise(et, ExcText(et))
              /\ pc' = "done"
              /\ UNCHANGED <<pathIdx, attempt>>
         ELSE IF IsFinalAttempt(attempt, max_attempts)
         THEN /\ hist' = h
              /\ pathIdx' = pathIdx + 1
              /\ attempt' = 0
              /\ pc' = "for"
              /\ UNCHANGED result
         ELSE /\ hist' = h
              /\ pc' = "sleep"
              /\ UNCHANGED <<result, pathIdx, attempt>>
    /\ UNCHANGED <<handlerVars, invocations, entry, file, fn, clock, start_time, status, max_attempts,
                   paths, job>>
    /\ store' = head_object(store, paths[pathIdx])

\* `time.sleep(delay)`; the next attempt follows.
verify_file_exists_sleep ==
    /\ fn = "verify_file_exists" /\ pc = "sleep"
    /\ hist' = HSleep(hist)
    /\ attempt' = attempt + 1
    /\ pc' = "for"
    /\ UNCHANGED <<handlerVars, invocations, entry, file, fn, clock, start_time, status, max_attempts,
                   pathIdx, paths, result, job, store>>

\* ---------------------------------------------------------- the handlers
\* The files that define a handler, by what the handler does.
VideoFiles  == {"VideoGeneratorFunction", "vg", "story-video-final"}
SubmitFiles == {"story-video-generator"}
StoryFiles  == {"story", "story-generator-style"}

\* lambda_handler passes max_attempts = 60, 30 and 10; the model runs each
\* loop with the ceiling capped at MaxHandlerAttempts.
CallAttempts(n) == IF n > MaxHandlerAttempts THEN MaxHandlerAttempts ELSE n

NoLocals == [event |-> [story_id |-> FALSE, polly_input |-> FALSE,
                        video_path |-> FALSE],
             video_key |-> NoKey, task_id |-> "None", job_id |-> "None",
             actual_audio_key |-> NoKey, file_input |-> NoKey,
             polled_task |-> "None", polled_job |-> "None",
             scenes |-> <<>>, idx |-> 0, images |-> 0, image_urls |-> <<>>,
             response_data |-> [image_urls |-> <<>>, generated_images |-> -1]]

\* Events of one invocation of a handler:
\*   missing     a required request field was missing
\*   starts      start_speech_synthesis_task calls issued
\*   creates     create_job calls issued
\*   submits     start_async_invoke calls issued
\*   started     the identifiers of the sub-jobs that were started
\*   failed      the first stage that failed: "none" | "setup" | "input" |
\*               "polly" | "mediaconvert" | "output" | "video"
\*   responses   responses returned
\*   stages      the stages entered, in the order they were entered
\*   video_found the key at which the search of the input video succeeded
NoHandlerHist == [missing |-> FALSE, starts |-> 0, creates |-> 0,
                  submits |-> 0, started |-> {}, failed |-> "none",
                  responses |-> 0, stages |-> <<>>, video_found |-> NoKey,
                  model_scenes |-> -1, scenes_json |-> <<>>,
                  attempted |-> <<>>, saved |-> <<>>]

HFail(h, stage) == [h EXCEPT !.failed = IF @ = "none" THEN stage ELSE @]
HStage(h, stage) == [h EXCEPT !.stages = Append(@, stage)]

\* The dict a handler returns: statusCode and the fields of body (of the
\* dict itself where the handler returns no statusCode and no body).
\* message is the fixed part of the message, detail the text formatted
\* into it (or the value of 'error'); a key that is absent has the value
\* 0 / "None" / NoKey / {}.
NoResponse == [statusCode |-> 0, message |-> "", detail |-> "",
               story_id |-> "None", polly_task_id |-> "None",
               job_id |-> "None", output_path |-> NoKey,
               attempted_paths |-> {}, status |-> "None",
               output_location |-> "None"]

Response(code, msg, det, sid, task, jid, out, att) ==
    [statusCode |-> code, message |-> msg, detail |-> det, story_id |-> sid,
     polly_task_id |-> task, job_id |-> jid, output_path |-> out,
     attempted_paths |-> att, status |-> "None", output_location |-> "None"]

\* `except Exception as e` of the outermost try
GeneralError(txt, sid) ==
    Response(500, "General error", txt, sid, "None", "None", NoKey, {})

\* `event.get('story_id')`: the value, or None
StoryId(ev) == IF ev.story_id THEN "story_id" ELSE "None"

\* The keys video_path is parsed into: 'video', 'video.mp4'.
VideoKeys == {Key(0, "video", 0), Key(0, "video", 1)}

\* `alternative_key = f"{story_id}/{video_key}"`
AlternativeKey(k) == [k EXCEPT !.pre = @ + 1]

\* `output_key = f"{story_id}/final/final_output"`
OutputKey == Key(0, "story_id/final/final_output", 0)

\* The key whose existence the merger checks after the job:
\* f"{output_key}.mp4" (in av.py output_key itself, which ends in ".mp4").
OutputFile == AddMp4(OutputKey)

\* The candidates verify_file_exists tries for key k and the attempts it
\* allows each: paths_to_check and max_attempts=10 in
\* AudioVideoMergerFunction.py, one head_object of k itself in av.py.
VerifyPaths(f, k) == IF f = "av" THEN <<k>> ELSE paths_to_check(k)
VerifyAttempts(f) == IF f = "av" THEN 1 ELSE CallAttempts(10)

\* Mutant: the clients of every handler are created before its try.
InsideTry_ClientsOutside(f, stage) == stage # "clients"

\* The statement of the handler in file f that belongs to `stage` lies inside
\* its outermost try: all of them do, but for the two boto3.client calls
\* that precede the try in VideoGeneratorFunction.py and vg.py.
InsideTry(f, stage) ==
    ~(f \in {"VideoGeneratorFunction", "vg"} /\ stage = "clients")

\* A call of f from a handler.
Call(f, m, ps) ==
    /\ fn' = f /\ pc' = "for"
    /\ attempt' = 0 /\ max_attempts' = m
    /\ pathIdx' = 1 /\ paths' = ps
    /\ status' = "none"
    /\ result' = NoResult
    /\ hist' = NoHist

\* The handler returns r; h is the history of the invocation up to there.
Respond(r, h) ==
    /\ response' = r
    /\ hh' = [h EXCEPT !.responses = @ + 1]
    /\ hpc' = "done"
    /\ fn' = entry /\ pc' = "done"
    /\ UNCHANGED <<attempt, max_attempts, pathIdx, paths, status, result, hist>>

\* An exception leaves the handler: the invocation ends with no response.
Propagate(h) ==
    /\ hh' = h
    /\ hpc' = "raised"
    /\ fn' = entry /\ pc' = "done"
    /\ UNCHANGED <<response, attempt, max_attempts, pathIdx, paths, status,
                   result, hist>>

\* ------------------------------------- lambda_handler (the merger)
\* 'Input video file not found' and its variant in av.py
InputNotFoundMessage(f) ==
    IF f = "av" THEN "Input video file not found at either path"
                ELSE "Input video file not found"

\* The 500 response of an output that was not found.
OutputNotFound(f, jid) ==
    IF f = "av"
    THEN Response(500, "MediaConvert output file not found", "", "story_id",
                  "None", jid, NoKey, {})
    ELSE Response(500, "MediaConvert output file not found after retries",
                  "", "story_id", "None", jid, OutputFile,
                  {OutputFile, AddMp4(OutputFile)})

\* 'output_path' of the 200 response: actual_output_key, in av.py output_key.
OutputPath(f, actual) == IF f = "av" THEN OutputFile ELSE actual

\* Mutant: the result of wait_for_mediaconvert_job is not looked at.
JobSucceeded_Always(r) == TRUE

\* `success, error = wait_for_mediaconvert_job(...)`, `if not success`
JobSucceeded(r) == r.ok

\* What start_speech_synthesis_task and create_job return.
PollyResponse == [SynthesisTask |-> [TaskId |-> "task_id"]]
MediaConvertResponse == [Job |-> [Id |-> "job_id"]]

\* Mutant: the monitor is given a handle kept from an earlier invocation.
TaskIdOf_Stale(polly_response) == "task_id_0"

\* `task_id = polly_response['SynthesisTask']['TaskId']`
TaskIdOf(polly_response) == polly_response.SynthesisTask.TaskId

\* `job_id = mediaconvert_response['Job']['Id']`
JobIdOf(mediaconvert_response) == mediaconvert_response.Job.Id

\* Lines 194-224: the clients, the required parameters, the parsing of
\* video_path and the first call of verify_file_exists.
lambda_handler_start ==
    /\ file \in MergerFiles
    /\ fn = "lambda_handler" /\ hpc = "start"
    /\ \E ev \in [story_id : BOOLEAN, polly_input : BOOLEAN,
                  video_path : BOOLEAN],
          vk \in VideoKeys, raised \in BOOLEAN :
         IF raised
         THEN /\ IF InsideTry(file, "clients")
                 THEN Respond(GeneralError(ExcText("Exception"), "None"),
                              HFail(hh, "setup"))
                 ELSE Propagate(HFail(hh, "setup"))
              /\ UNCHANGED hv
         ELSE IF ~ev.story_id \/ ~ev.polly_input \/ ~ev.video_path
         THEN /\ Respond(Response(400, "Missing required parameters", "",
                                  StoryId(ev), "None", "None", NoKey, {}),
                         [HFail(hh, "setup") EXCEPT !.missing = TRUE])
              /\ hv' = [hv EXCEPT !.event = ev]
         ELSE /\ hv' = [hv EXCEPT !.event = ev, !.video_key = vk]
              /\ Call("verify_file_exists", VerifyAttempts(file),
                      VerifyPaths(file, vk))
              /\ hpc' = "verify_input"
              /\ hh' = HStage(hh, "input")
              /\ UNCHANGED response
    /\ UNCHANGED <<invocations, entry, file, clock, start_time, job, store>>

\* Lines 225-229: the first search succeeded, or the search of
\* alternative_key starts.
lambda_handler_verify_input ==
    /\ fn = "verify_file_exists" /\ pc = "done" /\ hpc = "verify_input"
    /\ IF result.ok
       THEN /\ hpc' = "start_polly"
            /\ fn' = "lambda_handler"
            /\ hh' = [hh EXCEPT !.video_found = result.key]
            /\ UNCHANGED <<pc, attempt, max_attempts, pathIdx, paths, status,
                           result, hist>>
       ELSE /\ Call("verify_file_exists", VerifyAttempts(file),
                    VerifyPaths(file, AlternativeKey(hv.video_key)))
            /\ hpc' = "verify_alternative"
            /\ UNCHANGED hh
    /\ UNCHANGED <<invocations, entry, file, clock, start_time, job, store, hv, response>>

\* Lines 230-240: `video_key = actual_video_key`, or the 500 response.
lambda_handler_verify_alternative ==
    /\ fn = "verify_file_exists" /\ pc = "done" /\ hpc = "verify_alternative"
    /\ IF result.ok
       THEN /\ hv' = [hv EXCEPT !.video_key = result.key]
            /\ hh' = [hh EXCEPT !.video_found = result.key]
            /\ hpc' = "start_polly"
            /\ fn' = "lambda_handler"
            /\ UNCHANGED <<pc, attempt, max_attempts, pathIdx, paths, status,
                           result, hist, response>>
       ELSE /\ Respond(Response(500, InputNotFoundMessage(file), "",
                                "story_id", "None", "None", NoKey, {}),
                       HFail(hh, "input"))
            /\ UNCHANGED hv
    /\ UNCHANGED <<invocations, entry, file, clock, start_time, job, store>>

\* Lines 242-270: start_speech_synthesis_task and the call of
\* get_polly_output_file.
lambda_handler_start_polly ==
    /\ fn = "lambda_handler" /\ hpc = "start_polly"
    /\ \E raised \in BOOLEAN, et \in ExcTypes :
         LET h == HStage([hh EXCEPT !.starts = @ + 1], "polly") IN
         IF raised
         THEN /\ Respond(IF et = "ClientError"
                         THEN Response(500, "Error in Polly synthesis",
                                       ExcText(et), "story_id", "None",
                                       "None", NoKey, {})
                         ELSE GeneralError(ExcText(et), "story_id"),
                         HFail(h, "polly"))
              /\ UNCHANGED <<hv, job>>
         ELSE /\ hv' = [hv EXCEPT !.task_id = TaskIdOf(PollyResponse),
                                  !.polled_task = TaskIdOf(PollyResponse)]
              /\ hh' = [h EXCEPT !.started =
                                   @ \cup {PollyResponse.SynthesisTask.TaskId}]
              /\ job' = InitialStatus("get_polly_output_file")
              /\ Call("get_polly_output_file", CallAttempts(60), <<>>)
              /\ hpc' = "wait_polly"
              /\ UNCHANGED response
    /\ UNCHANGED <<invocations, entry, file, clock, start_time, store>>

\* Lines 263-282 and the handlers at 398 and 409: the value
\* get_polly_output_file returned, or the exception it raised.
lambda_handler_wait_polly ==
    /\ fn = "get_polly_output_file" /\ pc = "done" /\ hpc = "wait_polly"
    /\ IF result.kind = "raise"
       THEN /\ Respond(IF result.etype = "ClientError"
                       THEN Response(500, "Error in Polly synthesis",
                                     result.text, "story_id", "None", "None",
                                     NoKey, {})
                       ELSE GeneralError(result.text, "story_id"),
                       HFail(hh, "polly"))
            /\ UNCHANGED hv
       ELSE IF result.key = NoKey
       THEN /\ Respond(Response(500, "Failed to locate Polly output file", "",
                                "story_id", hv.task_id, "None", NoKey, {}),
                       HFail(hh, "polly"))
            /\ UNCHANGED hv
       ELSE /\ hv' = [hv EXCEPT !.actual_audio_key = result.key]
            /\ hpc' = "create_job"
            /\ fn' = "lambda_handler"
            /\ UNCHANGED <<pc, attempt, max_attempts, pathIdx, paths, status,
                           result, hist, response, hh>>
    /\ UNCHANGED <<invocations, entry, file, clock, start_time, job, store>>

\* Lines 284-328: get_job_settings, the job's inputs, create_job and the
\* call of wait_for_mediaconvert_job.  get_job_settings may raise before
\* create_job is called.
lambda_handler_create_job ==
    /\ fn = "lambda_handler" /\ hpc = "create_job"
    /\ \E raisedAt \in {"none", "get_job_settings", "create_job"},
          et \in ExcTypes :
         LET h == IF raisedAt = "get_job_settings"
                  THEN HStage(hh, "mediaconvert")
                  ELSE HStage([hh EXCEPT !.creates = @ + 1],
                              "mediaconvert") IN
         IF raisedAt # "none"
         THEN /\ Respond(IF et = "ClientError"
                         THEN Response(500,
                                       "Error in MediaConvert job creation",
                                       ExcText(et), "story_id", hv.task_id,
                                       "None", NoKey, {})
                         ELSE GeneralError(ExcText(et), "story_id"),
                         HFail(h, "mediaconvert"))
              /\ UNCHANGED <<hv, job>>
         ELSE /\ hv' = [hv EXCEPT !.job_id = JobIdOf(MediaConvertResponse),
                                  !.polled_job = JobIdOf(MediaConvertResponse),
                                  !.file_input = hv.video_key]
              /\ hh' = [h EXCEPT !.started =
                                   @ \cup {MediaConvertResponse.Job.Id}]
              /\ job' = InitialStatus("wait_for_mediaconvert_job")
              /\ Call("wait_for_mediaconvert_job", CallAttempts(30), <<>>)
              /\ hpc' = "wait_mediaconvert"
              /\ UNCHANGED response
    /\ UNCHANGED <<invocations, entry, file, clock, start_time, store>>

\* Lines 330-350: the 500 response of a job that did not succeed, or
\* `time.sleep(10)` and the search of the output.
lambda_handler_wait_mediaconvert ==
    /\ fn = "wait_for_mediaconvert_job" /\ pc = "done"
    /\ hpc = "wait_mediaconvert"
    /\ LET h == IF result.ok THEN hh ELSE HFail(hh, "mediaconvert") IN
       IF ~JobSucceeded(result)
       THEN Respond(Response(500, "MediaConvert job failed", result.text,
                             "story_id", "None", hv.job_id, NoKey, {}), h)
       ELSE /\ Call("verify_file_exists", VerifyAttempts(file),
                    VerifyPaths(file, OutputFile))
            /\ hpc' = "verify_output"
            /\ hh' = HStage(h, "output")
            /\ UNCHANGED response
    /\ UNCHANGED <<invocations, entry, file, clock, start_time, job, store, hv>>

\* Lines 352-384: the 500 response of an output that was not found, or the
\* 200 response.
lambda_handler_verify_output ==
    /\ fn = "verify_file_exists" /\ pc = "done" /\ hpc = "verify_output"
    /\ IF ~result.ok
       THEN Respond(OutputNotFound(file, hv.job_id), HFail(hh, "output"))
       ELSE Respond(Response(200, "Processing completed successfully", "",
                             "story_id", hv.task_id, hv.job_id,
                             OutputPath(file, result.key), {}), hh)
    /\ UNCHANGED <<invocations, entry, file, clock, start_time, job, store, hv>>

\* ------------------------ handler (video generation with monitoring)
\* The message chosen by the if/elif chain on status; the last branch
\* formats the status into the message.
StatusMessage(s) ==
    CASE s = "Completed" -> "Video generation completed successfully"
      [] s = "Failed"    -> "Video generation failed"
      [] s = "Timeout"   -> "Video generation monitoring timed out"
      [] OTHER           -> "Video generation status"

\* 'statusCode' of the response to a monitor outcome: story-video-final.py
\* starts from 200 and changes it for "Failed" and "Timeout"; the other
\* two files return a dict with no statusCode.
StatusCodeOf(f, s) ==
    IF f = "story-video-final"
    THEN CASE s = "Failed"  -> 500
           [] s = "Timeout" -> 408
           [] OTHER         -> 200
    ELSE 0

\* 'output_location' of the response: VideoGeneratorFunction.py replaces
\* None by the location it expects.
ResponseLocation(f, loc) ==
    IF f = "VideoGeneratorFunction" /\ loc = "None"
    THEN "s3://OUTPUT_BUCKET/story_id/job_id/output.mp4"
    ELSE loc

\* The response built from (status, output_location).
StatusResponse(f, s, loc) ==
    [statusCode |-> StatusCodeOf(f, s), message |-> StatusMessage(s),
     detail |-> IF s \in {"Completed", "Failed", "Timeout"} THEN "" ELSE s,
     story_id |-> IF f = "story-video-final" THEN "None" ELSE "story_id",
     polly_task_id |-> "None",
     job_id |-> IF f = "VideoGeneratorFunction" THEN "job_id" ELSE "None",
     output_path |-> NoKey, attempted_paths |-> {}, status |-> s,
     output_location |-> ResponseLocation(f, loc)]

\* The response of `except Exception as err`: create_error_response(err) in
\* story-video-final.py, {'error', 'status': 'Error', 'timestamp'} in
\* VideoGeneratorFunction.py and vg.py, statusCode 500 with body {'error'}
\* in story-video-generator.py, and with 'error_type' too in story.py.
ErrorResponse(f, txt) ==
    [statusCode |-> IF f \in {"VideoGeneratorFunction", "vg"} THEN 0 ELSE 500,
     message |-> "", detail |-> txt, story_id |-> "None",
     polly_task_id |-> "None", job_id |-> "None", output_path |-> NoKey,
     attempted_paths |-> {},
     status |-> IF f \in VideoFiles THEN "Error" ELSE "None",
     output_location |-> "None"]

\* Everything up to the call of monitor_video_generation: the clients, the
\* request's story_id, scenes.json, the shots and start_async_invoke.
handler_start ==
    /\ file \in VideoFiles
    /\ fn = "handler" /\ hpc = "start"
    /\ \E has_story_id \in BOOLEAN,
          raisedAt \in {"none", "clients", "scenes", "start_async_invoke"},
          et \in ExcTypes :
         IF raisedAt = "clients"
         THEN /\ IF InsideTry(file, "clients")
                 THEN Respond(ErrorResponse(file, ExcText(et)),
                              HFail(hh, "setup"))
                 ELSE Propagate(HFail(hh, "setup"))
              /\ UNCHANGED <<start_time, job>>
         ELSE IF ~has_story_id
         THEN /\ Respond(ErrorResponse(file, "story_id is required"),
                         [HFail(hh, "setup") EXCEPT !.missing = TRUE])
              /\ UNCHANGED <<start_time, job>>
         ELSE IF raisedAt = "scenes"
         THEN /\ Respond(ErrorResponse(file, ExcText(et)), HFail(hh, "setup"))
              /\ UNCHANGED <<start_time, job>>
         ELSE IF raisedAt = "start_async_invoke"
         THEN /\ Respond(ErrorResponse(file, ExcText(et)),
                         HFail([hh EXCEPT !.submits = @ + 1], "video"))
              /\ UNCHANGED <<start_time, job>>
         ELSE /\ hh' = [hh EXCEPT !.submits = @ + 1,
                                  !.started = @ \cup {"invocation"}]
              /\ job' = InitialStatus("monitor_video_generation")
              /\ fn' = "monitor_video_generation" /\ pc' = "query"
              /\ start_time' = clock
              /\ status' = "none" /\ result' = NoResult /\ hist' = NoHist
              /\ hpc' = "monitor"
              /\ UNCHANGED <<response, attempt, max_attempts, pathIdx, paths>>
    /\ UNCHANGED <<invocations, entry, file, clock, store, hv>>

\* The response built from what monitor_video_generation returned.
handler_monitor ==
    /\ fn = "monitor_video_generation" /\ pc = "done" /\ hpc = "monitor"
    /\ Respond(StatusResponse(file, result.text, result.loc),
               IF result.text = "Completed" THEN hh ELSE HFail(hh, "video"))
    /\ UNCHANGED <<invocations, entry, file, clock, start_time, job, store, hv>>

\* --------------- lambda_handler (video generation, submission only)
\* story-video-generator.py: the environment, the client, get_model_input,
\* start_async_invoke and the response.
lambda_handler_start_video_generation ==
    /\ file \in SubmitFiles
    /\ fn = "lambda_handler" /\ hpc = "start"
    /\ \E has_story_id \in BOOLEAN,
          raisedAt \in {"none", "clients", "scenes", "start_async_invoke"},
          et \in ExcTypes :
         IF raisedAt = "clients"
         THEN IF InsideTry(file, "clients")
              THEN Respond(ErrorResponse(file, ExcText(et)),
                           HFail(hh, "setup"))
              ELSE Propagate(HFail(hh, "setup"))
         ELSE IF ~has_story_id
         THEN Respond(ErrorResponse(file, "story_id is required in the event"),
                      [HFail(hh, "setup") EXCEPT !.missing = TRUE])
         ELSE IF raisedAt = "scenes"
         THEN Respond(ErrorResponse(file, ExcText(et)), HFail(hh, "setup"))
         ELSE IF raisedAt = "start_async_invoke"
         THEN Respond(ErrorResponse(file, ExcText(et)),
                      HFail([hh EXCEPT !.submits = @ + 1], "video"))
         ELSE Respond(Response(200, "Video generation started successfully",
                               "", "None", "None", "None", NoKey, {}),
                      [hh EXCEPT !.submits = @ + 1,
                                 !.started = @ \cup {"invocation"}])
    /\ UNCHANGED <<invocations, entry, file, clock, start_time, job, store, hv>>

\* ------------------------------------------ handler (story generation)
\* A scene of the story: one the model wrote (the n-th part its text
\* splits into) or the placeholder `f"Scene {n} about {user_input}"`.
ModelScene(n) == [by |-> "model", n |-> n]
Placeholder(n) == [by |-> "placeholder", n |-> n]

\* The scenes re.split and the two list comprehensions make of a text
\* that holds n parts.
RawScenes(n) == [i \in 1..n |-> ModelScene(i)]

\* Mutant: the list is not cut.
Truncate_Nothing(s) == s

\* `scenes = scenes[:5]`
Truncate(s) == SubSeq(s, 1, IF Len(s) < 5 THEN Len(s) ELSE 5)

\* Mutant: nothing is appended.
Pad_Nothing(s) == s

\* `while len(scenes) < 5: scenes.append(f"Scene {len(scenes) + 1} about ..")`
RECURSIVE Pad(_)
Pad(s) == IF Len(s) < 5 THEN Pad(Append(s, Placeholder(Len(s) + 1))) ELSE s

\* `[f"Scene {i} about {user_input}" for i in range(1, 6)]`
default_scenes == [i \in 1..5 |-> Placeholder(i)]

\* generate_story_steps: the scenes it returns when the model's text
\* holds n parts, or when anything in the try block raised.
generate_story_steps(n, raised) ==
    IF raised THEN default_scenes ELSE Pad(Truncate(RawScenes(n)))

\* `{f"shot{i+1}_text": scene for i, scene in enumerate(scenes)}`: the
\* document, as a function of the shot number.
scenes_data(scenes) == [i \in 1..Len(scenes) |-> scenes[i]]

\* save_metadata_to_s3: every scenes.json written so far, after a call
\* whose put_object calls succeeded or not.
save_metadata_to_s3(written, scenes, ok) ==
    IF ok THEN Append(written, scenes_data(scenes)) ELSE written

\* VideoGeneratorFunction's handler reads scene_data[f"shot{i}_text"] for
\* i in range(1, 6).
ShotsRead == 1..5

\* story.py invokes the image model once; story-generator-style.py sets
\* `max_retries = 3`.
MaxRetries(f) == IF f = "story-generator-style" THEN 3 ELSE 1

\* What a failed invocation of the image model says.
ImageFailures == {"ValidationException: content filters", "ThrottlingException"}

\* `"ValidationException" in str(e)`
IsValidation(txt) == txt = "ValidationException: content filters"

\* Mutant: `retry_count < max_retries`.
RetriesLeft_OneMore(retry_count, max_retries) == retry_count < max_retries

\* `retry_count < max_retries - 1`
RetriesLeft(retry_count, max_retries) == retry_count < max_retries - 1

\* `if "ValidationException" in str(e) and retry_count < max_retries - 1`;
\* story.py has no handler and no loop.
ShouldRetry(f, txt, retry_count, max_retries) ==
    /\ f = "story-generator-style"
    /\ IsValidation(txt)
    /\ RetriesLeft(retry_count, max_retries)

\* `while retry_count < max_retries`, and after the loop
\* `raise Exception("Max retries reached for image generation")`.
image_from_text_while ==
    /\ fn = "image_from_text" /\ pc = "for"
    /\ IF attempt < max_attempts
       THEN /\ pc' = "query"
            /\ UNCHANGED <<result, hist>>
       ELSE /\ pc' = "done"
            /\ result' = Raise("Exception", "Max retries reached for image generation")
            /\ hist' = HReturn(hist)
    /\ UNCHANGED <<handlerVars, invocations, entry, file, fn, clock, start_time, status, attempt,
                   max_attempts, pathIdx, paths, job, store>>

\* invoke_model and the reading of its response: the image is returned,
\* or the exception is handled: one more retry, or `raise`.
image_from_text_invoke ==
    /\ fn = "image_from_text" /\ pc = "query"
    /\ \E raised \in BOOLEAN, txt \in ImageFailures :
         LET final == LastAllowed(attempt, max_attempts) IN
         IF ~raised
         THEN /\ hist' = HReturn(HQuery(hist, fn, "image", 0, 0, final))
              /\ result' = Return(TRUE, "image", NoKey, "None")
              /\ pc' = "done"
              /\ UNCHANGED attempt
         ELSE IF ShouldRetry(file, txt, attempt, max_attempts)
         THEN /\ hist' = [HQuery(hist, fn, "EXC", 0, 0, final) EXCEPT !.lastExc = txt]
              /\ attempt' = attempt + 1
              /\ pc' = "sleep"
              /\ UNCHANGED result
         ELSE /\ hist' = HReturn([HQuery(hist, fn, "EXC", 0, 0, final)
                                    EXCEPT !.lastExc = txt])
              /\ result' = Raise("Exception", txt)
              /\ pc' = "done"
              /\ UNCHANGED attempt
    /\ UNCHANGED <<handlerVars, invocations, entry, file, fn, clock, start_time, status,
                   max_attempts, pathIdx, paths, job, store>>

\* `time.sleep(2)` and `continue`
image_from_text_sleep ==
    /\ fn = "image_from_text" /\ pc = "sleep"
    /\ hist' = HSleep(hist)
    /\ pc' = "for"
    /\ UNCHANGED <<handlerVars, invocations, entry, file, fn, clock, start_time, status, attempt,
                   max_attempts, pathIdx, paths, result, job, store>>

\* The request's topic: `raise ValueError("Topic is required")` and any
\* exception of the parsing end in the 500 response; otherwise the story
\* is generated next.
handler_story ==
    /\ file \in StoryFiles
    /\ fn = "handler" /\ hpc = "start"
    /\ \E has_topic \in BOOLEAN, raised \in BOOLEAN, et \in ExcTypes :
         IF ~has_topic
         THEN Respond(ErrorResponse(file, "Topic is required"),
                      [HFail(hh, "setup") EXCEPT !.missing = TRUE])
         ELSE IF raised
         THEN Respond(ErrorResponse(file, ExcText(et)), HFail(hh, "setup"))
         ELSE /\ hpc' = "generate_story_steps"
              /\ UNCHANGED <<fn, pc, attempt, max_attempts, pathIdx, paths,
                             status, result, hist, response, hh>>
    /\ UNCHANGED <<invocations, entry, file, clock, start_time, job, store, hv>>

\* generate_story_steps, the metadata and the first save_metadata_to_s3,
\* whose result the handler does not look at.
handler_story_steps ==
    /\ fn = "handler" /\ hpc = "generate_story_steps"
    /\ \E n \in 0..MaxScenes, raised \in BOOLEAN, saved \in BOOLEAN :
         LET scenes == generate_story_steps(n, raised) IN
         /\ hv' = [hv EXCEPT !.scenes = scenes, !.idx = 0]
         /\ hh' = [hh EXCEPT !.model_scenes = IF raised THEN -1 ELSE n,
                             !.scenes_json =
                                 save_metadata_to_s3(@, scenes, saved)]
    /\ hpc' = "scene"
    /\ UNCHANGED <<invocations, entry, file, fn, pc, clock, start_time, status, attempt,
                   max_attempts, pathIdx, paths, result, job, store, hist,
                   response>>

\* `metadata['generated_images'] = len(images)`; the handler of
\* story-generator-style.py keeps no count.
GeneratedImages(f, images) == IF f = "story" THEN images ELSE -1

\* The header of `for idx, scene in enumerate(scenes)`: the call of
\* image_from_text for the next scene, or, after the last one, the
\* metadata, the second save_metadata_to_s3 (story.py) and the response.
handler_story_scene ==
    /\ fn = "handler" /\ hpc = "scene"
    /\ IF hv.idx < Len(hv.scenes)
       THEN /\ Call("image_from_text", MaxRetries(file), <<>>)
            /\ hpc' = "image"
            /\ hh' = [hh EXCEPT !.attempted = Append(@, hv.idx + 1)]
            /\ UNCHANGED <<hv, response>>
       ELSE \E saved \in BOOLEAN :
            /\ hv' = [hv EXCEPT !.response_data =
                        [image_urls |-> hv.image_urls,
                         generated_images |-> GeneratedImages(file, hv.images)]]
            /\ Respond(Response(200, "", "", "story_id", "None", "None",
                                NoKey, {}),
                       [hh EXCEPT !.scenes_json =
                          IF file = "story"
                          THEN save_metadata_to_s3(@, hv.scenes, saved)
                          ELSE @])
    /\ UNCHANGED <<invocations, entry, file, clock, start_time, job, store>>

\* The rest of the loop body: save_image_to_s3 when image_from_text
\* returned, the appends when it gave a URL; `except Exception .. continue`
\* otherwise.
handler_story_image ==
    /\ fn = "image_from_text" /\ pc = "done" /\ hpc = "image"
    /\ \E saved \in BOOLEAN :
         LET scene_number == hv.idx + 1
             image_url    == result.kind = "return" /\ saved IN
         /\ hv' = [hv EXCEPT !.idx = @ + 1,
                             !.images = IF image_url THEN @ + 1 ELSE @,
                             !.image_urls = IF image_url
                                            THEN Append(@, scene_number) ELSE @]
         /\ hh' = [hh EXCEPT !.saved = IF image_url
                                       THEN Append(@, scene_number) ELSE @]
    /\ hpc' = "scene"
    /\ fn' = "handler"
    /\ UNCHANGED <<invocations, entry, file, pc, clock, start_time, status, attempt,
                   max_attempts, pathIdx, paths, result, job, store, hist,
                   response>>

\* ------------------------------------------- concurrent lambda_handler
\* The merger lambda_handler invoked NumInvocations times at once, from
\* start_speech_synthesis_task on. Each invocation has its own locals; the
\* Polly tasks, the MediaConvert jobs and the objects of OUTPUT_BUCKET
\* belong to the account. A monitor or locator call is one step here: the
\* outcome the call ends with.
Invocations == 1..NumInvocations

\* `timestamp = int(time.time())`
Timestamps == {0, 1}

\* `audio_prefix = f"{story_id}/audio/speech_{timestamp}"`
AudioPrefix(s, t) == [story_id |-> s, timestamp |-> t]
NoPrefix == AudioPrefix("None", 0)

\* The key of the task's OutputUri: Polly writes <prefix>.<TaskId>.mp3.
PollyOutput(prefix, id) == [prefix |-> prefix, task_id |-> id]

\* `output_key = f"{story_id}/final/final_output"`
OutputKeyOf(s) == [story_id |-> s, name |-> "final/final_output"]

\* The keys MediaConvert can be told to write to.
Destinations == {OutputKeyOf(s) : s \in StoryIds}

\* Nothing invoked: no task, no job, no object.
NoInvocations ==
    [run |-> <<>>, tasks |-> <<>>, jobs |-> <<>>,
     objects |-> [d \in Destinations |-> 0]]

\* The locals of an invocation for story s about to start Polly;
\* confirmed is the job that wrote the object its head_object found.
NewInvocation(s) ==
    [story_id |-> s, at |-> "start_polly", audio_prefix |-> NoPrefix,
     task_id |-> 0, actual_audio_key |-> PollyOutput(NoPrefix, 0),
     job_id |-> 0, actual_output_key |-> OutputKeyOf("None"),
     confirmed |-> 0, statusCode |-> 0]

\* Invocation i, whose locals are r, returns with status code c.
Returns(i, r, c) ==
    invocations' = [invocations EXCEPT
                      !.run[i] = [r EXCEPT !.at = "done", !.statusCode = c]]

\* start_speech_synthesis_task: the task is new and gets the next id.
concurrent_start_polly ==
    /\ \E i \in Invocations, t \in Timestamps, raised \in BOOLEAN :
         LET r      == invocations.run[i]
             id     == Len(invocations.tasks) + 1
             prefix == AudioPrefix(r.story_id, t) IN
         /\ r.at = "start_polly"
         /\ IF raised
            THEN Returns(i, r, 500)
            ELSE invocations' =
                   [invocations EXCEPT
                      !.tasks  = Append(@, [OutputS3KeyPrefix |-> prefix,
                                            TaskStatus |-> "scheduled"]),
                      !.run[i] = [r EXCEPT !.audio_prefix = prefix,
                                           !.task_id = id,
                                           !.at = "wait_polly"]]
    /\ UNCHANGED singleVars

\* Polly ends a task.
PollyRuns ==
    /\ \E id \in 1..Len(invocations.tasks), st \in {"completed", "failed"} :
         /\ invocations.tasks[id].TaskStatus = "scheduled"
         /\ invocations' = [invocations EXCEPT !.tasks[id].TaskStatus = st]
    /\ UNCHANGED singleVars

\* get_polly_output_file(.., task_id) has ended: with the key of the
\* task's OutputUri, or with an exception (the task failed, the attempts
\* ran out, the last query raised) and the 500 of the handler.
concurrent_wait_polly ==
    /\ \E i \in Invocations, gave_up \in BOOLEAN :
         LET r    == invocations.run[i]
             task == invocations.tasks[r.task_id] IN
         /\ r.at = "wait_polly"
         /\ IF task.TaskStatus = "completed" /\ ~gave_up
            THEN invocations' =
                   [invocations EXCEPT
                      !.run[i] = [r EXCEPT
                                    !.actual_audio_key =
                                        PollyOutput(task.OutputS3KeyPrefix,
                                                    r.task_id),
                                    !.at = "create_job"]]
            ELSE Returns(i, r, 500)
    /\ UNCHANGED singleVars

\* create_job with the Destination built from output_key: the job is new
\* and gets the next id.
concurrent_create_job ==
    /\ \E i \in Invocations, raised \in BOOLEAN :
         LET r  == invocations.run[i]
             id == Len(invocations.jobs) + 1 IN
         /\ r.at = "create_job"
         /\ IF raised
            THEN Returns(i, r, 500)
            ELSE invocations' =
                   [invocations EXCEPT
                      !.jobs   = Append(@, [Destination |->
                                              OutputKeyOf(r.story_id),
                                            Status |-> "SUBMITTED"]),
                      !.run[i] = [r EXCEPT !.job_id = id,
                                           !.at = "wait_mediaconvert"]]
    /\ UNCHANGED singleVars

\* MediaConvert ends a job: it writes <Destination>.mp4, replacing what is
\* there, or it fails and writes nothing.
MediaConvertRuns ==
    /\ \E id \in 1..Len(invocations.jobs) :
         LET j == invocations.jobs[id] IN
         /\ j.Status = "SUBMITTED"
         /\ \/ invocations' =
                 [invocations EXCEPT !.jobs[id].Status = "COMPLETE",
                                     !.objects[j.Destination] = id]
            \/ invocations' = [invocations EXCEPT !.jobs[id].Status = "ERROR"]
    /\ UNCHANGED singleVars

\* wait_for_mediaconvert_job(.., job_id) has ended: with (True, None), or
\* with a failure and the 500 of the handler.
concurrent_wait_mediaconvert ==
    /\ \E i \in Invocations, gave_up \in BOOLEAN :
         LET r == invocations.run[i] IN
         /\ r.at = "wait_mediaconvert"
         /\ IF invocations.jobs[r.job_id].Status = "COMPLETE" /\ ~gave_up
            THEN invocations' =
                   [invocations EXCEPT
                      !.run[i] = [r EXCEPT !.at = "verify_output"]]
            ELSE Returns(i, r, 500)
    /\ UNCHANGED singleVars

\* verify_file_exists(.., f"{output_key}.mp4") has ended: head_object
\* found an object at the key, or every check failed.
concurrent_verify_output ==
    /\ \E i \in Invocations, raised \in BOOLEAN :
         LET r == invocations.run[i]
             k == OutputKeyOf(r.story_id) IN
         /\ r.at = "verify_output"
         /\ IF invocations.objects[k] # 0 /\ ~raised
            THEN invocations' =
                   [invocations EXCEPT
                      !.run[i] = [r EXCEPT
                                    !.actual_output_key = k,
                                    !.confirmed = invocations.objects[k],
                                    !.at = "done", !.statusCode = 200]]
            ELSE Returns(i, r, 500)
    /\ UNCHANGED singleVars

\* ------------------------------------------------------------------- runs
InitBedrock ==
    /\ entry = "monitor_video_generation"
    /\ file \in BedrockFiles
    /\ fn = entry /\ pc = "query"
    /\ clock = 0 /\ start_time = 0
    /\ status = "none" /\ attempt = 0 /\ max_attempts = 0
    /\ pathIdx = 1 /\ paths = <<>>
    /\ result = NoResult
    /\ job = InitialStatus(entry)
    /\ store = {}
    /\ hist = NoHist
    /\ hpc = "none" /\ hv = NoLocals /\ response = NoResponse
    /\ hh = NoHandlerHist
    /\ invocations = NoInvocations

InitMC ==
    /\ entry = "wait_for_mediaconvert_job"
    /\ file \in MergerFiles
    /\ fn = entry /\ pc = "for"
    /\ clock = 0 /\ start_time = 0
    /\ status = "none" /\ attempt = 0 /\ max_attempts \in 0..MaxAttempts
    /\ pathIdx = 1 /\ paths = <<>>
    /\ result = NoResult
    /\ job = InitialStatus(entry)
    /\ store = {}
    /\ hist = NoHist
    /\ hpc = "none" /\ hv = NoLocals /\ response = NoResponse
    /\ hh = NoHandlerHist
    /\ invocations = NoInvocations

InitPolly ==
    /\ entry = "get_polly_output_file"
    /\ file \in MergerFiles
    /\ fn = entry /\ pc = "for"
    /\ clock = 0 /\ start_time = 0
    /\ status = "none" /\ attempt = 0 /\ max_attempts \in 0..MaxAttempts
    /\ pathIdx = 1 /\ paths = <<>>
    /\ result = NoResult
    /\ job = InitialStatus(entry)
    /\ store = {}
    /\ hist = NoHist
    /\ hpc = "none" /\ hv = NoLocals /\ response = NoResponse
    /\ hh = NoHandlerHist
    /\ invocations = NoInvocations

\* The keys a direct call of verify_file_exists is given: 'a/b', 'a/b.mp4'.
DirectKeys == {Key(0, "a/b", 0), Key(0, "a/b", 1)}

InitVerify ==
    /\ entry = "verify_file_exists"
    /\ file = "AudioVideoMergerFunction"
    /\ fn = entry /\ pc = "for"
    /\ clock = 0 /\ start_time = 0
    /\ status = "none" /\ attempt = 0 /\ max_attempts \in 0..MaxAttempts
    /\ pathIdx = 1
    /\ \E k \in DirectKeys : paths = paths_to_check(k)
    /\ result = NoResult
    /\ job = "none"
    /\ store = {}
    /\ hist = NoHist
    /\ hpc = "none" /\ hv = NoLocals /\ response = NoResponse
    /\ hh = NoHandlerHist
    /\ invocations = NoInvocations

InitHandler ==
    /\ \/ entry = "lambda_handler" /\ file \in MergerFiles \cup SubmitFiles
       \/ entry = "handler" /\ file \in VideoFiles \cup StoryFiles
    /\ fn = entry /\ pc = "none"
    /\ clock = 0 /\ start_time = 0
    /\ status = "none" /\ attempt = 0 /\ max_attempts = 0
    /\ pathIdx = 1 /\ paths = <<>>
    /\ result = NoResult
    /\ job = "none"
    /\ store = {}
    /\ hist = NoHist
    /\ hpc = "start" /\ hv = NoLocals /\ response = NoResponse
    /\ hh = NoHandlerHist
    /\ invocations = NoInvocations

Init == InitBedrock \/ InitMC \/ InitPolly \/ InitVerify \/ InitHandler

Next ==
    \/ JobStep
    \/ StoreStep
    \/ monitor_video_generation_query
    \/ monitor_video_generation_sleep
    \/ wait_for_mediaconvert_job_for
    \/ wait_for_mediaconvert_job_query
    \/ wait_for_mediaconvert_job_sleep
    \/ wait_for_mediaconvert_job_sleep_complete
    \/ get_polly_output_file_for
    \/ get_polly_output_file_query
    \/ get_polly_output_file_sleep
    \/ get_polly_output_file_next
    \/ verify_file_exists_for
    \/ verify_file_exists_check
    \/ verify_file_exists_sleep
    \/ lambda_handler_start
    \/ lambda_handler_verify_input
    \/ lambda_handler_verify_alternative
    \/ lambda_handler_start_polly
    \/ lambda_handler_wait_polly
    \/ lambda_handler_create_job
    \/ lambda_handler_wait_mediaconvert
    \/ lambda_handler_verify_output
    \/ handler_start
    \/ handler_monitor
    \/ lambda_handler_start_video_generation
    \/ handler_story
    \/ handler_story_steps
    \/ handler_story_scene
    \/ handler_story_image
    \/ image_from_text_while
    \/ image_from_text_invoke
    \/ image_from_text_sleep

Spec == Init /\ [][Next]_vars

\* NumInvocations invocations of the merger lambda_handler, each given a
\* story id, past their input check; the variables of the single
\* invocation stay as a handler about to start leaves them.
InitConcurrent ==
    /\ entry = "lambda_handler" /\ file = "AudioVideoMergerFunction"
    /\ fn = entry /\ pc = "none"
    /\ clock = 0 /\ start_time = 0
    /\ status = "none" /\ attempt = 0 /\ max_attempts = 0
    /\ pathIdx = 1 /\ paths = <<>>
    /\ result = NoResult
    /\ job = "none"
    /\ store = {}
    /\ hist = NoHist
    /\ hpc = "none" /\ hv = NoLocals /\ response = NoResponse
    /\ hh = NoHandlerHist
    /\ \E ids \in [Invocations -> StoryIds] :
         invocations = [NoInvocations EXCEPT
                          !.run = [i \in Invocations |-> NewInvocation(ids[i])]]

NextConcurrent ==
    \/ concurrent_start_polly
    \/ PollyRuns
    \/ concurrent_wait_polly
    \/ concurrent_create_job
    \/ MediaConvertRuns
    \/ concurrent_wait_mediaconvert
    \/ concurrent_verify_output

SpecConcurrent == InitConcurrent /\ [][NextConcurrent]_vars

\* ================================================================ claims
Monitors == {"monitor_video_generation", "wait_for_mediaconvert_job",
             "get_polly_output_file"}

Elapsed == clock - start_time

\* C1: in every monitor, a status query answered with a value that is not
\* an in-progress value ends the polling loop at that query: no sleep and
\* no further query follows it.
C1_NonInProgressEndsLoop ==
    fn \in Monitors => hist.afterOther = 0

\* The result the monitor f owes to the terminal status t.
ResultIs(f, t, r) ==
    CASE f = "monitor_video_generation" ->
           r.kind = "return" /\ r.text = t
      [] f = "wait_for_mediaconvert_job" ->
           /\ r.kind = "return"
           /\ r.ok = (t = "COMPLETE")
           /\ t # "COMPLETE" => r.text \in {"ErrorMessage of the job", "Unknown error"}
      [] f = "get_polly_output_file" ->
           IF t = "completed"
           THEN r.kind = "return" /\ r.key = PollyOutputKey
           ELSE r.kind = "raise" /\ r.text = "Polly task failed"
      [] OTHER -> FALSE

\* C2: once a status query has returned a terminal status, the monitor
\* issues no further status query and its result is that status.
C2_FirstTerminalIsFinal ==
    fn \in Monitors =>
      /\ hist.afterTerm = 0
      /\ (pc = "done" /\ hist.term # "none") => ResultIs(fn, hist.term, result)

\* C3: one call of a monitor produces exactly one result, never the
\* in-progress status, and never returns twice.
C3_ExactlyOneTerminalResult ==
    fn \in Monitors =>
      /\ hist.returns = (IF pc = "done" THEN 1 ELSE 0)
      /\ pc # "done" => result = NoResult
      /\ pc = "done" =>
           /\ result.kind \in {"return", "raise"}
           /\ fn = "monitor_video_generation" =>
                /\ result.kind = "return"
                /\ result.text \in (BedrockStatuses \ {"InProgress"})
                                     \cup {"Timeout", "Error"}
           /\ ~InProgressValue(fn, result.text)

C3_Witness ==
    /\ fn = "monitor_video_generation" /\ pc = "done"
    /\ result.text = "Completed" /\ hist.nQueries = 3 /\ hist.returns = 1

\* C4 as stated: when the job never leaves InProgress the monitor returns
\* Timeout with at most MAX_MONITORING_TIME + SLEEP_SECONDS elapsed.
C4_Original ==
    (fn = "monitor_video_generation" /\ pc = "done"
       /\ result.text = "Timeout")
    => Elapsed <= MAX_MONITORING_TIME + SLEEP_SECONDS

\* C4 amended: when the job never leaves InProgress the monitor returns
\* Timeout; the time it has slept never exceeds MAX_MONITORING_TIME +
\* SLEEP_SECONDS and its last query is issued no later than that, so the
\* elapsed time at the return exceeds the bound by at most the duration of
\* the last query.
C4_TimeoutWithinBoundPlusLastQuery ==
    fn = "monitor_video_generation" =>
      /\ hist.nSleeps * SLEEP_SECONDS <= MAX_MONITORING_TIME + SLEEP_SECONDS
      /\ hist.lastQueryAt <= MAX_MONITORING_TIME + SLEEP_SECONDS
      /\ pc = "done" =>
           /\ Elapsed = hist.lastQueryAt + hist.lastLat
           /\ (hist.nInProgress = hist.nQueries) <=> (result.text = "Timeout")

C4_Witness ==
    /\ fn = "monitor_video_generation" /\ pc = "done"
    /\ result.text = "Timeout"
    /\ hist.nInProgress = hist.nQueries
    /\ Elapsed > MAX_MONITORING_TIME + SLEEP_SECONDS

\* C5 as stated: no status query is issued once the elapsed time exceeds
\* MAX_MONITORING_TIME.
C5_Original ==
    (fn = "monitor_video_generation" /\ hist.nQueries > 0)
    => hist.lastQueryAt <= MAX_MONITORING_TIME

\* C5 amended: once a clock reading taken right after an InProgress answer
\* exceeds MAX_MONITORING_TIME the monitor returns Timeout and queries no
\* more; the clock is not read elsewhere, so a query can still be issued up
\* to SLEEP_SECONDS after the ceiling.
C5_TimeoutAtFirstLateReading ==
    fn = "monitor_video_generation" =>
      /\ pc = "sleep" => Elapsed <= MAX_MONITORING_TIME
      /\ pc = "query" => Elapsed <= MAX_MONITORING_TIME + SLEEP_SECONDS
      /\ (pc = "done" /\ hist.lastQ = "InProgress") =>
           /\ result.text = "Timeout"
           /\ Elapsed > MAX_MONITORING_TIME
      /\ hist.lastQueryAt <= MAX_MONITORING_TIME + SLEEP_SECONDS

C5_Witness ==
    /\ fn = "monitor_video_generation" /\ pc = "done"
    /\ result.text = "Timeout"
    /\ hist.lastQueryAt > MAX_MONITORING_TIME

\* The responses so far are n in-progress ones followed by a terminal one.
InProgressThenTerminal ==
    /\ fn \in {"monitor_video_generation", "wait_for_mediaconvert_job"}
    /\ hist.nQueries > 0
    /\ hist.lastQ # "EXC"
    /\ TerminalValue(fn, hist.lastQ)
    /\ hist.nInProgress = hist.nQueries - 1

C7_FailedQueryDoesNotEndMonitor ==
    (fn \in Monitors /\ hist.lastQ = "EXC" /\ ~hist.lastFinal) => pc # "done"

\* C8: in a monitor with an attempt ceiling, a status query that fails on
\* the final allowed attempt ends the monitor with an outcome carrying the
\* text of that exception, and lambda_handler answers with status code 500
\* and that text.
FailedOnFinalAttempt ==
    /\ fn \in {"wait_for_mediaconvert_job", "get_polly_output_file"}
    /\ hist.lastQ = "EXC" /\ hist.lastFinal

C8_FinalAttemptFailureIsError ==
    /\ [](FailedOnFinalAttempt =>
            /\ pc = "done"
            /\ result.text = hist.lastExc
            /\ IF fn = "wait_for_mediaconvert_job"
               THEN result.kind = "return" /\ ~result.ok
               ELSE result.kind = "raise")
    /\ [][(FailedOnFinalAttempt /\ entry = "lambda_handler")
            => /\ hpc' = "done"
               /\ response'.statusCode = 500
               /\ response'.detail = hist.lastExc]_vars

C8_Witness ==
    /\ entry = "lambda_handler" /\ hpc = "done"
    /\ response.statusCode = 500
    /\ response.message = "MediaConvert job failed"
    /\ hist.lastQ = "EXC" /\ hist.lastFinal
    /\ response.detail = hist.lastExc

\* C9: verify_file_exists returns success with the key of the first
\* candidate, in order, whose existence check succeeds, and checks no later
\* candidate; the key may differ from the primary key.
C9_FirstFoundCandidate ==
    (fn = "verify_file_exists" /\ pc = "done" /\ result.ok) =>
      /\ result.key = paths[pathIdx]
      /\ result.key \in store
      /\ hist.lastQ = "found" /\ hist.lastKey = result.key
      /\ hist.nQueries - hist.nExc = 1
      /\ \A j \in 1..Len(paths) :
           /\ j < pathIdx => hist.chk[j] = max_attempts
           /\ j > pathIdx => hist.chk[j] = 0

C9_Witness ==
    /\ fn = "verify_file_exists" /\ pc = "done" /\ result.ok
    /\ paths[1] = Key(0, "a/b", 0)
    /\ result.key = Key(0, "a/b", 1)
    /\ hist.chk = <<max_attempts, 1, 0>> /\ max_attempts = 3

\* The existence checks key k has received in this call.
ChecksOfKey(k) ==
    LET c(i) == IF i <= Len(paths) /\ paths[i] = k THEN hist.chk[i] ELSE 0
    IN  c(1) + c(2) + c(3)

\* C10: verify_file_exists checks the candidates in order, a candidate only
\* after every earlier one has failed max_attempts times; no key receives
\* more than max_attempts checks, and two consecutive checks of a key are
\* separated by a sleep.
C10_OrderedBoundedChecks ==
    fn = "verify_file_exists" =>
      /\ ~hist.outOfOrder
      /\ \A k \in Range(paths) : ChecksOfKey(k) <= max_attempts
      /\ ~hist.noDelay

\* ----------------------------------------------------- handler claims
\* An invocation of the merger's lambda_handler.
MergerRun == entry = "lambda_handler" /\ file \in MergerFiles

\* The keys that received an existence check in the latest call of
\* verify_file_exists.
CheckedKeys ==
    {paths[i] : i \in {j \in 1..Len(paths) : hist.chk[j] > 0}}

\* The existence checks of the latest call, if it searched the output of
\* the MediaConvert job.
OutputChecks ==
    IF Len(paths) > 0 /\ paths[1] = OutputFile THEN hist.nQueries ELSE 0

\* C11: when the search of the MediaConvert output has exhausted its
\* candidates, the failure response of lambda_handler lists every key that
\* received an existence check.
C11_FailureListsEveryAttemptedLocation ==
    (MergerRun /\ file = "AudioVideoMergerFunction" /\ hpc = "done"
       /\ hh.failed = "output") =>
      response.attempted_paths = CheckedKeys

\* C12: verify_file_exists returns (False, None), with none of the paths it
\* tried, exactly when no existence check succeeded, and only after each
\* candidate has been checked max_attempts times.
C12_FailurePairAfterAllChecks ==
    (fn = "verify_file_exists" /\ pc = "done") =>
      /\ ~result.ok <=> hist.nExc = hist.nQueries
      /\ ~result.ok =>
           /\ result = Return(FALSE, "None", NoKey, "None")
           /\ \A i \in 1..Len(paths) : hist.chk[i] = max_attempts
           /\ hist.nQueries = Len(paths) * max_attempts

C12_Witness ==
    /\ fn = "verify_file_exists" /\ pc = "done" /\ ~result.ok
    /\ max_attempts = MaxAttempts
    /\ Len(paths) = 3 /\ hist.nQueries = 3 * MaxAttempts
    /\ store # {}

\* The stages of lambda_handler, in their order.
StageOrder == <<"input", "polly", "mediaconvert", "output">>

IsPrefix(sq, of) ==
    /\ Len(sq) <= Len(of)
    /\ \A i \in 1..Len(sq) : sq[i] = of[i]

\* C13: lambda_handler enters its stages in the order input video, Polly,
\* MediaConvert, output; as soon as a stage has failed the handler has
\* returned a failure response, and no service call of a later stage
\* (start_speech_synthesis_task, create_job, head_object of the output) was
\* issued in the invocation.
C13_StagesInOrderFirstFailureReturns ==
    MergerRun =>
      /\ IsPrefix(hh.stages, StageOrder)
      /\ hh.starts <= 1 /\ hh.creates <= 1
      /\ hh.starts > 0 => Len(hh.stages) >= 2
      /\ hh.creates > 0 => Len(hh.stages) >= 3 /\ "task_id" \in hh.started
      /\ OutputChecks > 0 => Len(hh.stages) = 4 /\ "job_id" \in hh.started
      /\ hh.failed # "none" =>
           /\ hpc = "done" /\ response.statusCode \in {400, 500}
           /\ hh.failed \in {"setup", "input"} =>
                hh.starts = 0 /\ hh.creates = 0 /\ OutputChecks = 0
           /\ hh.failed = "polly" => hh.creates = 0 /\ OutputChecks = 0
           /\ hh.failed = "mediaconvert" => OutputChecks = 0

C13_Witness ==
    /\ MergerRun /\ hpc = "done"
    /\ hh.failed = "mediaconvert" /\ hh.creates = 1
    /\ hh.stages = <<"input", "polly", "mediaconvert">>
    /\ ~result.ok /\ hist.term = "ERROR"
    /\ response.statusCode = 500

\* The response reports success: status code 200 with a completed/success
\* message, or status 'Completed'.
ReportsSuccess(r) ==
    \/ /\ r.statusCode = 200
       /\ r.message \in {"Processing completed successfully",
                         "Video generation completed successfully",
                         "Video generation started successfully"}
    \/ r.status = "Completed"

\* C14: a handler reports success only after an existence check of the
\* final artifact has succeeded in the same invocation.
C14_SuccessOnlyAfterExistenceCheck ==
    (hpc = "done" /\ ReportsSuccess(response)) =>
      hist.lastQ = "found" /\ OutputChecks > 0

\* C15: when a required request field is missing the handler returns a
\* response with status code 400, having called no service and submitted
\* no job.
C15_MissingFieldIs400 ==
    (hpc = "done" /\ hh.missing) =>
      /\ response.statusCode = 400
      /\ hh.starts = 0 /\ hh.creates = 0 /\ hh.submits = 0
      /\ hist = NoHist

\* The statuses by which a job reports that it failed or was canceled.
FailedStatuses == {"ERROR", "CANCELED", "failed", "Failed"}

\* The error message of a failed job as wait_for_mediaconvert_job reads it.
ServiceMessages == {"ErrorMessage of the job", "Unknown error"}

\* C16: once the job has reported a failed or canceled state the handler
\* issues no further status query and submits nothing again, and its
\* response has status code 500 and carries the service's error message.
C16_JobFailureIs500WithServiceMessage ==
    (hpc # "none" /\ hist.term \in FailedStatuses) =>
      /\ hist.afterTerm = 0
      /\ hh.starts <= 1 /\ hh.creates <= 1 /\ hh.submits <= 1
      /\ hpc = "done" =>
           response.statusCode = 500 /\ response.detail \in ServiceMessages

\* The latest monitor gave up at its wait ceiling with the job in progress.
MonitorTimedOut ==
    /\ result.text \in {"Timeout", "Timeout waiting for MediaConvert job",
                        "Timeout waiting for Polly file"}
    /\ hist.term = "none"
    /\ hist.lastQ \in {"InProgress", "SUBMITTED", "PROGRESSING", "scheduled",
                       "inProgress"}

\* The status classification of a response.
Class(r) == <<r.statusCode, r.status>>

\* The classifications of the responses the handler of file f gives to a
\* job that reported failed or canceled.
FailureClasses(f) ==
    IF f \in MergerFiles
    THEN {Class(Response(500, "MediaConvert job failed", "", "story_id",
                         "None", "job_id", NoKey, {})),
          Class(GeneralError("Polly task failed", "story_id"))}
    ELSE {Class(StatusResponse(f, "Failed", "None"))}

\* C17: the response to a monitor that timed out differs in its status
\* classification from the response to a job that failed or was canceled.
C17_TimeoutDistinctFromFailure ==
    (hpc = "done" /\ MonitorTimedOut) =>
      Class(response) \notin FailureClasses(file)

\* The merger's lambda_handler and handler of story-video-final.py.
GuardedHandlers == {"AudioVideoMergerFunction", "av", "story-video-final"}

\* A step of the program, as opposed to one of the services.
ProgramStep ==
    \/ monitor_video_generation_query
    \/ monitor_video_generation_sleep
    \/ wait_for_mediaconvert_job_for
    \/ wait_for_mediaconvert_job_query
    \/ wait_for_mediaconvert_job_sleep
    \/ wait_for_mediaconvert_job_sleep_complete
    \/ get_polly_output_file_for
    \/ get_polly_output_file_query
    \/ get_polly_output_file_sleep
    \/ get_polly_output_file_next
    \/ verify_file_exists_for
    \/ verify_file_exists_check
    \/ verify_file_exists_sleep
    \/ lambda_handler_start
    \/ lambda_handler_verify_input
    \/ lambda_handler_verify_alternative
    \/ lambda_handler_start_polly
    \/ lambda_handler_wait_polly
    \/ lambda_handler_create_job
    \/ lambda_handler_wait_mediaconvert
    \/ lambda_handler_verify_output
    \/ handler_start
    \/ handler_monitor
    \/ lambda_handler_start_video_generation
    \/ handler_story
    \/ handler_story_steps
    \/ handler_story_scene
    \/ handler_story_image
    \/ image_from_text_while
    \/ image_from_text_invoke
    \/ image_from_text_sleep

\* C18: an invocation of a handler goes on until it has returned, and it
\* returns one response; once a stage has failed the response has been
\* returned.  No exception leaves lambda_handler of the merger or handler of
\* story-video-final.py, whose responses all have a status code; no
\* validation error, query error, job failure, timeout or not-found leaves
\* any handler: the one exception that does is raised by the creation of
\* the clients, before anything else was done.
C18_OneResponseNoException ==
    hpc # "none" =>
      /\ hh.responses = IF hpc = "done" THEN 1 ELSE 0
      /\ hpc = "done" => response # NoResponse
      /\ hpc # "done" => response = NoResponse
      /\ hpc \notin {"done", "raised"} => ENABLED ProgramStep
      /\ hh.failed # "none" => hpc \in {"done", "raised"}
      /\ hpc = "raised" =>
           /\ hh.failed = "setup" /\ ~hh.missing
           /\ hh.stages = <<>> /\ hh.submits = 0 /\ hist = NoHist
      /\ file \in GuardedHandlers =>
           /\ hpc # "raised"
           /\ hpc = "done" => response.statusCode # 0

C18_Witness ==
    /\ MergerRun /\ hpc = "done"
    /\ hh.failed = "polly" /\ result.kind = "raise"
    /\ hist.lastQ = "EXC"
    /\ response.statusCode = 500 /\ response.detail = result.text

\* C19: every response carries a status code that is one of 200, 400 and
\* 500, and a video-generation handler answers 200 only when the monitored
\* job was read as Completed.
C19_StatusCodeIs200_400_500 ==
    hpc = "done" =>
      /\ response.statusCode \in {200, 400, 500}
      /\ (file \in VideoFiles /\ response.statusCode = 200) =>
           result.text = "Completed" /\ hist.lastQ = "Completed"

\* C20: every response of the merger's lambda_handler carries the
\* identifier of each sub-job started in the invocation.
C20_ResponseCarriesStartedJobIds ==
    (MergerRun /\ hpc = "done") =>
      /\ "task_id" \in hh.started => response.polly_task_id = "task_id"
      /\ "job_id" \in hh.started => response.job_id = "job_id"

\* ------------------------------------------- resources, frame, handles
\* C21: a call issues a bounded number of queries whatever the service
\* answers: wait_for_mediaconvert_job and get_polly_output_file at most
\* max_attempts status queries, failed ones included, and
\* verify_file_exists at most max_attempts head_object checks of any
\* candidate key.
C21_QueriesBoundedByMaxAttempts ==
    /\ fn \in {"wait_for_mediaconvert_job", "get_polly_output_file"} =>
         hist.nQueries <= max_attempts
    /\ fn = "verify_file_exists" =>
         \A k \in Range(paths) : ChecksOfKey(k) <= max_attempts

\* C22: in a monitor call no two status queries follow each other without
\* a sleep in between, whatever the first of them answered or raised.
C22_SleepBetweenQueries ==
    fn \in Monitors => ~hist.busy

\* C23: in one invocation of the merger's lambda_handler
\* start_speech_synthesis_task and create_job are each called at most once,
\* whatever the monitors and the searches returned, and a monitor polls the
\* handle that the invocation's own submission returned.
C23_SubmitOncePollOwnHandle ==
    MergerRun =>
      /\ hh.starts <= 1 /\ hh.creates <= 1
      /\ Cardinality(hh.started) <= hh.starts + hh.creates
      /\ hv.polled_task # "None" =>
           hv.polled_task \in hh.started /\ hh.starts = 1
      /\ hv.polled_job # "None" =>
           hv.polled_job \in hh.started /\ hh.creates = 1
      /\ fn = "get_polly_output_file" =>
           hv.polled_task = PollyResponse.SynthesisTask.TaskId
      /\ fn = "wait_for_mediaconvert_job" =>
           hv.polled_job = MediaConvertResponse.Job.Id

C23_Witness ==
    /\ MergerRun /\ hpc = "done"
    /\ hh.starts = 1 /\ hh.creates = 1 /\ hh.failed = "output"
    /\ hv.polled_task = "task_id" /\ hv.polled_job = "job_id"
    /\ hist.nQueries > 1

\* A step taken by a running monitor or by the locator, as opposed to a
\* step of the services.
FunctionStep ==
    /\ fn \in Monitors \cup {"verify_file_exists"} /\ pc # "done"
    /\ <<pc, attempt, pathIdx, hist, clock, result>>' #
         <<pc, attempt, pathIdx, hist, clock, result>>

\* C24: every step of monitor_video_generation, wait_for_mediaconvert_job,
\* get_polly_output_file and verify_file_exists leaves the stored objects
\* and the job's state as they were.
C24_MonitorsAndLocatorReadOnly ==
    [][FunctionStep => (store' = store /\ job' = job)]_vars

C24_Witness ==
    /\ fn = "verify_file_exists" /\ pc = "done" /\ ~result.ok
    /\ hist.nQueries = 3 * MaxAttempts
    /\ store = {paths[1]}

\* C28: in the merger lambda_handler the key submitted to MediaConvert as
\* FileInput is the key at which verify_file_exists found the video in
\* this invocation, in the primary search as in the fallback search.
C28_FileInputIsTheKeyFound ==
    (MergerRun /\ file = "AudioVideoMergerFunction" /\ hv.file_input # NoKey) =>
        hv.file_input = hh.video_found

\* The monitor f returned r for a job that succeeded.
SuccessOutcome(f, r) ==
    /\ r.kind = "return"
    /\ CASE f = "monitor_video_generation"  -> r.text = "Completed"
         [] f = "wait_for_mediaconvert_job" -> r.ok
         [] OTHER                           -> TRUE

\* What a monitor hands back besides the outcome itself: the second
\* element of the pair the Bedrock and MediaConvert monitors return, the
\* message of the exception the Polly monitor raises.
Carried(f, r) ==
    CASE f = "monitor_video_generation" -> r.loc
      [] OTHER                          -> r.text

\* C27: a monitor's result carries the output location when the job
\* succeeded and a cause string when it did not; no Failed, Canceled,
\* Timeout or Error outcome comes back without a cause string.
C27_LocationOnSuccessCauseOnFailure ==
    (/\ fn \in Monitors /\ pc = "done"
     /\ file \in {"AudioVideoMergerFunction", "VideoGeneratorFunction"}) =>
        IF SuccessOutcome(fn, result)
        THEN result.loc # "None" \/ result.key # NoKey
        ELSE Carried(fn, result) \notin {"None", ""}

\* C29: in monitor_video_generation a status other than "InProgress" is
\* returned as it is, whatever the elapsed time; "Timeout" is returned
\* only right after a query answered "InProgress" with more than
\* MAX_MONITORING_TIME elapsed; after a query answered "InProgress" with
\* at most MAX_MONITORING_TIME elapsed the monitor sleeps.
C29_TerminalStatusBeforeCeiling ==
    fn = "monitor_video_generation" =>
      /\ (pc = "done" /\ result.text = "Timeout") =>
            /\ hist.last = "query" /\ hist.lastQ = "InProgress"
            /\ Elapsed > MAX_MONITORING_TIME
      /\ (pc = "done" /\ hist.lastQ \notin {"InProgress", "EXC", "none"}) =>
            result.text = hist.lastQ
      /\ pc = "sleep" =>
            /\ hist.lastQ = "InProgress"
            /\ Elapsed <= MAX_MONITORING_TIME
      /\ (hist.last = "query" /\ hist.lastQ = "InProgress"
          /\ Elapsed <= MAX_MONITORING_TIME) => pc = "sleep"

\* A status that ended the job is reported although the ceiling has passed.
C29_Witness ==
    /\ fn = "monitor_video_generation" /\ pc = "done"
    /\ hist.lastQ = "Failed" /\ result.text = "Failed"
    /\ Elapsed > MAX_MONITORING_TIME

\* C30: monitor_video_generation of VideoGeneratorFunction returns a
\* location exactly when the status it returns is "Completed", and that
\* location is s3://OUTPUT_BUCKET/<story_id>/<job_id>/output.mp4.
C30_LocationExactlyWhenCompleted ==
    (/\ file = "VideoGeneratorFunction"
     /\ fn = "monitor_video_generation" /\ pc = "done") =>
        /\ result.kind = "return"
        /\ result.loc # "None" <=> result.text = "Completed"
        /\ result.text = "Completed" =>
              result.loc = "s3://OUTPUT_BUCKET/story_id/job_id/output.mp4"

\* The monitor gave up on a job still in progress and returned no location.
C30_Witness ==
    /\ file = "VideoGeneratorFunction"
    /\ fn = "monitor_video_generation" /\ pc = "done"
    /\ result.text = "Timeout" /\ result.loc = "None"
    /\ hist.nSleeps > 0

\* What one query decides: where the function goes next and, when it
\* returns, what it returns.
Decision(p, r) == [pc |-> p, result |-> r]

\* monitor_video_generation of file f, started at time start, after a
\* query answered q ("EXC" when it raised) and a clock reading of now.
BedrockDecision(f, start, now, q) ==
    LET folder == IF f = "VideoGeneratorFunction" THEN "None"
                  ELSE "s3://OUTPUT_BUCKET/job_id"
        output == IF f = "VideoGeneratorFunction"
                  THEN "s3://OUTPUT_BUCKET/story_id/job_id/output.mp4"
                  ELSE "s3://OUTPUT_BUCKET/job_id/output.mp4" IN
    IF q = "EXC" THEN Decision("done", Return(TRUE, "Error", NoKey, folder))
    ELSE IF q # "InProgress"
    THEN Decision("done", Return(TRUE, q, NoKey,
                                 IF q = "Completed" THEN output ELSE "None"))
    ELSE IF now - start > MAX_MONITORING_TIME
    THEN Decision("done", Return(TRUE, "Timeout", NoKey, folder))
    ELSE Decision("sleep", NoResult)

\* wait_for_mediaconvert_job of file f on attempt a of m, after a query
\* answered q; exc is the text of the exception, msg the job's message.
MediaConvertDecision(f, a, m, q, exc, msg) ==
    IF q = "EXC"
    THEN IF a = m - 1 THEN Decision("done", Return(FALSE, exc, NoKey, "None"))
         ELSE Decision("sleep", NoResult)
    ELSE IF q = "COMPLETE"
    THEN IF f = "AudioVideoMergerFunction"
         THEN Decision("sleep_complete", NoResult)
         ELSE Decision("done", Return(TRUE, "None", NoKey, "None"))
    ELSE IF q \in {"ERROR", "CANCELED"}
    THEN Decision("done", Return(FALSE, msg, NoKey, "None"))
    ELSE Decision("sleep", NoResult)

\* verify_file_exists on attempt a of m at position i of ps, after an
\* existence check answered q ("found", or "EXC").
VerifyDecision(ps, i, a, m, q) ==
    IF q = "found" THEN Decision("done", Return(TRUE, "None", ps[i], "None"))
    ELSE IF a = m - 1 THEN Decision("for", NoResult)
    ELSE Decision("sleep", NoResult)

\* The step is a query of function f.
QueryOf(f) ==
    fn = f /\ fn' = f /\ hist'.nQueries = hist.nQueries + 1

\* C26: the job spec, the responses and the clock readings decide what the
\* monitor and the locator return: at every query, where the function
\* goes and what it returns is a function of the call's arguments, the
\* attempt reached, the response just received and the clock just read.
C26_ResponsesDecideTheResult ==
    [][/\ QueryOf("monitor_video_generation") =>
            Decision(pc', result') =
              BedrockDecision(file, start_time, clock', hist'.lastQ)
       /\ QueryOf("wait_for_mediaconvert_job") =>
            Decision(pc', result') =
              MediaConvertDecision(file, attempt, max_attempts, hist'.lastQ,
                                   hist'.lastExc, hist'.lastMsg)
       /\ QueryOf("verify_file_exists") =>
            /\ Decision(pc', result') =
                 VerifyDecision(paths, pathIdx, attempt, max_attempts,
                                hist'.lastQ)
            /\ <<pathIdx', attempt'>> =
                 IF hist'.lastQ # "found" /\ attempt = max_attempts - 1
                 THEN <<pathIdx + 1, 0>> ELSE <<pathIdx, attempt>>]_vars

\* The monitor has returned the message of a job that failed, after a
\* query that raised and the sleep that followed.
C26_Witness ==
    /\ fn = "wait_for_mediaconvert_job" /\ pc = "done"
    /\ hist.nExc > 0 /\ hist.nSleeps > 0
    /\ hist.lastQ = "CANCELED"
    /\ result = Return(FALSE, "ErrorMessage of the job", NoKey, "None")

\* C25: of several invocations of the merger lambda_handler running at
\* once, with the same story_id or not, each one that reports success
\* resolved the audio of its own Polly task and the output key of its own
\* story, and the object its locator found was written by its own job.
C25_InvocationsDoNotInterfere ==
    \A i \in Invocations :
      LET r == invocations.run[i] IN
      (r.at = "done" /\ r.statusCode = 200) =>
        /\ r.actual_audio_key.task_id = r.task_id
        /\ invocations.tasks[r.task_id].TaskStatus = "completed"
        /\ r.actual_output_key = OutputKeyOf(r.story_id)
        /\ invocations.jobs[r.job_id].Status = "COMPLETE"
        /\ r.confirmed = r.job_id

StoryRun == file \in StoryFiles /\ hpc # "none" /\ Len(hv.scenes) > 0

\* The scene numbers from 1 to n, in order.
UpTo(n) == [i \in 1..n |-> i]

\* C32: in the story generator handler a scene whose image could not be
\* generated or saved is skipped and the next scene follows: once the
\* handler has returned, image_from_text has been called once for every
\* scene, in scene order, the status code is 200, image_urls holds the
\* URLs of the scenes whose image was saved, in scene order, and
\* metadata['generated_images'] is the length of image_urls.
C32_FailedImageSkipsOneScene ==
    StoryRun =>
      /\ IsPrefix(hh.attempted, UpTo(Len(hv.scenes)))
      /\ hpc \in {"scene", "image", "done"}
      /\ hpc = "done" =>
           /\ hh.attempted = UpTo(Len(hv.scenes))
           /\ response.statusCode = 200
           /\ hv.response_data.image_urls = hh.saved
           /\ hv.response_data.generated_images =
                Len(hv.response_data.image_urls)

\* A call of image_from_text of story-generator-style.py.
StyleImageCall == file = "story-generator-style" /\ fn = "image_from_text"

\* C33: image_from_text of story-generator-style.py invokes the image
\* model at most 3 times in a call. It sleeps and invokes again only after
\* a failure whose text contains "ValidationException" and while fewer
\* than 2 retries have been made; any other failure, and a
\* ValidationException on the third invocation, is raised at once with
\* its own text; the first invocation that succeeds ends the call.
C33_AtMostThreeInvocations ==
    StyleImageCall =>
      /\ hist.nQueries <= 3
      /\ hist.nSleeps <= 2
      /\ ~hist.busy
      /\ hist.nExc \in {hist.nQueries - 1, hist.nQueries}
      /\ hist.nSleeps \in {hist.nExc - 1, hist.nExc}
      /\ pc \in {"sleep", "for", "query"} =>
           /\ hist.nSleeps = IF pc = "sleep" THEN hist.nExc - 1 ELSE hist.nExc
           /\ hist.nExc = hist.nQueries
           /\ hist.nQueries > 0 =>
                IsValidation(hist.lastExc) /\ hist.nQueries <= 2
      /\ (pc = "done" /\ result.kind = "raise") =>
           /\ hist.last = "query" /\ hist.lastQ = "EXC"
           /\ result.text = hist.lastExc
           /\ hist.nExc = hist.nQueries /\ hist.nSleeps = hist.nQueries - 1
           /\ ~IsValidation(hist.lastExc) \/ hist.nQueries = 3
      /\ (pc = "done" /\ result.kind = "return") =>
           /\ hist.last = "query" /\ hist.lastQ = "image"
           /\ hist.nExc = hist.nQueries - 1 /\ hist.nSleeps = hist.nExc

\* The third invocation failed with a ValidationException, which the call
\* raised after its two sleeps.
C33_Witness ==
    /\ StyleImageCall /\ pc = "done"
    /\ result = Raise("Exception", "ValidationException: content filters")
    /\ hist.nQueries = 3 /\ hist.nSleeps = 2

\* The smaller of two numbers.
Min(a, b) == IF a < b THEN a ELSE b

\* C34: generate_story_steps returns exactly 5 scenes whatever the model
\* returned: its first 5 scenes when it wrote at least 5, its scenes
\* followed by placeholders when it wrote fewer, 5 placeholders when the
\* call raised; and every scenes.json that save_metadata_to_s3 wrote has
\* the entries shot1_text to shot5_text the video generator reads.
C34_AlwaysFiveScenes ==
    (file = "story" /\ hpc \in {"scene", "image", "done"}
     /\ hh.failed = "none") =>
      /\ Len(hv.scenes) = 5
      /\ \A i \in 1..5 :
           hv.scenes[i] = IF i <= Min(hh.model_scenes, 5)
                          THEN ModelScene(i) ELSE Placeholder(i)
      /\ \A w \in 1..Len(hh.scenes_json) :
           /\ ShotsRead \subseteq DOMAIN hh.scenes_json[w]
           /\ hh.scenes_json[w] = scenes_data(hv.scenes)

\* The model wrote 3 scenes, 2 placeholders were added, and the handler
\* has written scenes.json twice.
C34_Witness ==
    /\ file = "story" /\ hpc = "done"
    /\ hh.model_scenes = 3
    /\ hv.scenes = <<ModelScene(1), ModelScene(2), ModelScene(3),
                     Placeholder(4), Placeholder(5)>>
    /\ Len(hh.scenes_json) = 2
====
